---------------------------- MODULE Spec2Model ----------------------------
(***************************************************************************)
(* A model of the common layer of the rxing barcode library                *)
(* (src/src/common/mod.rs): BitSource, CharacterSetECI, GridSampler,       *)
(* BitArray, BitMatrix, ECIEncoderSet and MinimalECIInput.                  *)
(*                                                                         *)
(* Every component has its own variable and its own specification          *)
(* (SpecBitSource, SpecCharset, ...): the components share no state.  A    *)
(* Rust panic (failed assert, unwrap of None, index out of range,          *)
(* arithmetic overflow) is the outcome "panic" of the operation.           *)
(***************************************************************************)
EXTENDS Integers, Sequences, FiniteSets, TLC

VARIABLES bs, cs, gs, ba, bm, me, gh, sb, pt, dr, vp

vars == <<bs, cs, gs, ba, bm, me, gh, sb, pt, dr, vp>>

\* the one element of a set of one element; a value is computed once by
\* binding it as the element of such a set
TheOne(S) == CHOOSE x \in S : TRUE

(***************************************************************************)
(* Helpers for fixed-width unsigned arithmetic.                            *)
(***************************************************************************)
Min(a, b) == IF a < b THEN a ELSE b

BitAt(v, k) == (v \div (2 ^ k)) % 2

\* bit k of a & b and of a | b, at its weight 2^k
AndBits(a, b, k) == (2 ^ k) * (BitAt(a, k) * BitAt(b, k))
OrBits(a, b, k) == (2 ^ k) * (IF BitAt(a, k) + BitAt(b, k) > 0 THEN 1 ELSE 0)

\* u8 operators: & | >> and the truncating <<
And8(a, b) ==
  AndBits(a, b, 0) + AndBits(a, b, 1) + AndBits(a, b, 2) + AndBits(a, b, 3)
  + AndBits(a, b, 4) + AndBits(a, b, 5) + AndBits(a, b, 6) + AndBits(a, b, 7)
Or8(a, b) ==
  OrBits(a, b, 0) + OrBits(a, b, 1) + OrBits(a, b, 2) + OrBits(a, b, 3)
  + OrBits(a, b, 4) + OrBits(a, b, 5) + OrBits(a, b, 6) + OrBits(a, b, 7)
Shr8(a, k) == a \div (2 ^ k)
Shl8(a, k) == (a * (2 ^ k)) % 256

(***************************************************************************)
(* BitSource                                                               *)
(***************************************************************************)
\* longest byte buffer of the model
MaxBytes == 4
\* the byte values the buffers are made of
ByteSamples == {171, 205}
\* the largest numBits tried (33 is the first rejected width)
MaxNumBits == 33

ByteBuffers == UNION {[1..k -> ByteSamples] : k \in 0..MaxBytes}

NoRead == [n |-> 0, status |-> "none", result |-> 0, pre_byte |-> 0, pre_bit |-> 0]

\* BitSource::new
BitSourceNew(bytes) ==
  [bytes |-> bytes, byte_offset |-> 0, bit_offset |-> 0, last |-> NoRead]

\* BitSource::available
available(s) == 8 * (Len(s.bytes) - s.byte_offset) - s.bit_offset

\* the byte the source indexes with self.bytes[self.byte_offset]
ByteAt(s, i) == s.bytes[i + 1]

\* first block of readBits: the remainder of the current byte
ReadRemainder(s, num_bits) ==
  IF s.bit_offset > 0
  THEN LET bitsLeft == 8 - s.bit_offset
           toRead == Min(num_bits, bitsLeft)
           bitsToNotRead == bitsLeft - toRead
           mask == Shl8(Shr8(255, 8 - toRead), bitsToNotRead)
           bo == s.bit_offset + toRead
       IN  [result |-> Shr8(And8(ByteAt(s, s.byte_offset), mask), bitsToNotRead),
            num_bits |-> num_bits - toRead,
            bit_offset |-> IF bo = 8 THEN 0 ELSE bo,
            byte_offset |-> IF bo = 8 THEN s.byte_offset + 1 ELSE s.byte_offset]
  ELSE [result |-> 0, num_bits |-> num_bits,
        bit_offset |-> s.bit_offset, byte_offset |-> s.byte_offset]

\* the u8 accumulator step of the whole-byte loop:
\* result = ((result as u16) << 8) as u8 | (byte & 0xFF)
AccumulateByte(result, byte) ==
  Or8(((result * 256) % 65536) % 256, And8(byte, 255))

\* second block of readBits: while num_bits >= 8, one whole byte per turn
RECURSIVE ReadWholeBytes(_, _)
ReadWholeBytes(s, r) ==
  IF r.num_bits >= 8
  THEN ReadWholeBytes(s,
         [r EXCEPT !.result = AccumulateByte(r.result, ByteAt(s, r.byte_offset)),
                   !.byte_offset = r.byte_offset + 1,
                   !.num_bits = r.num_bits - 8])
  ELSE r

\* third block of readBits: the final partial byte
ReadPartial(s, r) ==
  IF r.num_bits > 0
  THEN LET bits_to_not_read == 8 - r.num_bits
           mask == Shl8(Shr8(255, bits_to_not_read), bits_to_not_read)
       IN  [r EXCEPT !.result = Or8(Shl8(r.result, r.num_bits),
                                    Shr8(And8(ByteAt(s, r.byte_offset), mask),
                                         bits_to_not_read)),
                     !.bit_offset = r.bit_offset + r.num_bits]
  ELSE r

\* BitSource::readBits
readBits(s, numBits) ==
  IF numBits < 1 \/ numBits > 32 \/ numBits > available(s)
  THEN [s EXCEPT !.last = [n |-> numBits, status |-> "IllegalArgument", result |-> 0,
                           pre_byte |-> s.byte_offset, pre_bit |-> s.bit_offset]]
  ELSE LET r1 == ReadRemainder(s, numBits)
           r2 == IF r1.num_bits > 0 THEN ReadPartial(s, ReadWholeBytes(s, r1)) ELSE r1
       IN  [s EXCEPT !.byte_offset = r2.byte_offset,
                     !.bit_offset = r2.bit_offset,
                     !.last = [n |-> numBits, status |-> "Ok", result |-> r2.result,
                               pre_byte |-> s.byte_offset, pre_bit |-> s.bit_offset]]

(***************************************************************************)
(* CharacterSetECI                                                         *)
(***************************************************************************)
\* the largest ECI value looked up
MaxECIProbe == 175

\* CharacterSetECI::getValue, with a wrong value for ISO8859_13
getValueShifted(cs_eci) ==
  CASE cs_eci = "Cp437" -> 0
    [] cs_eci = "ISO8859_1" -> 1
    [] cs_eci = "ISO8859_2" -> 4
    [] cs_eci = "ISO8859_3" -> 5
    [] cs_eci = "ISO8859_4" -> 6
    [] cs_eci = "ISO8859_5" -> 7
    [] cs_eci = "ISO8859_6" -> 8
    [] cs_eci = "ISO8859_7" -> 9
    [] cs_eci = "ISO8859_8" -> 10
    [] cs_eci = "ISO8859_9" -> 11
    [] cs_eci = "ISO8859_10" -> 12
    [] cs_eci = "ISO8859_11" -> 13
    [] cs_eci = "ISO8859_13" -> 14
    [] cs_eci = "ISO8859_14" -> 16
    [] cs_eci = "ISO8859_15" -> 17
    [] cs_eci = "ISO8859_16" -> 18
    [] cs_eci = "SJIS" -> 20
    [] cs_eci = "Cp1250" -> 21
    [] cs_eci = "Cp1251" -> 22
    [] cs_eci = "Cp1252" -> 23
    [] cs_eci = "Cp1256" -> 24
    [] cs_eci = "UnicodeBigUnmarked" -> 25
    [] cs_eci = "UTF8" -> 26
    [] cs_eci = "ASCII" -> 27
    [] cs_eci = "Big5" -> 28
    [] cs_eci = "GB18030" -> 29
    [] cs_eci = "EUC_KR" -> 30

\* CharacterSetECI::getValue
getValue(cs_eci) ==
  CASE cs_eci = "Cp437" -> 0
    [] cs_eci = "ISO8859_1" -> 1
    [] cs_eci = "ISO8859_2" -> 4
    [] cs_eci = "ISO8859_3" -> 5
    [] cs_eci = "ISO8859_4" -> 6
    [] cs_eci = "ISO8859_5" -> 7
    [] cs_eci = "ISO8859_6" -> 8
    [] cs_eci = "ISO8859_7" -> 9
    [] cs_eci = "ISO8859_8" -> 10
    [] cs_eci = "ISO8859_9" -> 11
    [] cs_eci = "ISO8859_10" -> 12
    [] cs_eci = "ISO8859_11" -> 13
    [] cs_eci = "ISO8859_13" -> 15
    [] cs_eci = "ISO8859_14" -> 16
    [] cs_eci = "ISO8859_15" -> 17
    [] cs_eci = "ISO8859_16" -> 18
    [] cs_eci = "SJIS" -> 20
    [] cs_eci = "Cp1250" -> 21
    [] cs_eci = "Cp1251" -> 22
    [] cs_eci = "Cp1252" -> 23
    [] cs_eci = "Cp1256" -> 24
    [] cs_eci = "UnicodeBigUnmarked" -> 25
    [] cs_eci = "UTF8" -> 26
    [] cs_eci = "ASCII" -> 27
    [] cs_eci = "Big5" -> 28
    [] cs_eci = "GB18030" -> 29
    [] cs_eci = "EUC_KR" -> 30

\* CharacterSetECI::getCharacterSetECIByValue; "NotFound" is the Err result
getCharacterSetECIByValue(value) ==
  CASE value \in {0, 2} -> "Cp437"
    [] value \in {1, 3} -> "ISO8859_1"
    [] value = 4 -> "ISO8859_2"
    [] value = 5 -> "ISO8859_3"
    [] value = 6 -> "ISO8859_4"
    [] value = 7 -> "ISO8859_5"
    [] value = 8 -> "ISO8859_6"
    [] value = 9 -> "ISO8859_7"
    [] value = 10 -> "ISO8859_8"
    [] value = 11 -> "ISO8859_9"
    [] value = 12 -> "ISO8859_10"
    [] value = 13 -> "ISO8859_11"
    [] value = 15 -> "ISO8859_13"
    [] value = 16 -> "ISO8859_14"
    [] value = 17 -> "ISO8859_15"
    [] value = 18 -> "ISO8859_16"
    [] value = 20 -> "SJIS"
    [] value = 21 -> "Cp1250"
    [] value = 22 -> "Cp1251"
    [] value = 23 -> "Cp1252"
    [] value = 24 -> "Cp1256"
    [] value = 25 -> "UnicodeBigUnmarked"
    [] value = 26 -> "UTF8"
    [] value \in {27, 170} -> "ASCII"
    [] value = 28 -> "Big5"
    [] value = 29 -> "GB18030"
    [] value = 30 -> "EUC_KR"
    [] OTHER -> "NotFound"

CsIdle == [v |-> -1, status |-> "none", eci |-> "none", value |-> -1]

\* a caller's round trip: look the value up and, on Ok, ask the ECI for its value
LookupAndGetValue(v) ==
  LET e == getCharacterSetECIByValue(v)
  IN  IF e = "NotFound"
      THEN [v |-> v, status |-> "NotFound", eci |-> "none", value |-> -1]
      ELSE [v |-> v, status |-> "Ok", eci |-> e, value |-> getValue(e)]

(***************************************************************************)
(* GridSampler::checkAndNudgePoints                                        *)
(*                                                                         *)
(* A coordinate is an f32; the model holds it in half units (the integer   *)
(* h stands for h/2), which is enough for the values -2, -1.5, -1, -0.5,   *)
(* 0, ... that the nudging distinguishes.                                  *)
(***************************************************************************)
\* the image's width and height
ImageWidth == 3
ImageHeight == 2
\* the largest number of points in a list
MaxPoints == 3

\* `as i32` of an f32 held in half units: truncation toward zero
AsI32(h) == IF h >= 0 THEN h \div 2 ELSE -((-h) \div 2)

\* an integer as f32, in half units
AsF32(i) == 2 * i

\* the range test of both sweeps, with the upper limit of x one too far
OutOfImageLoose(x, y, width, height) ==
  x < -1 \/ x > width + 1 \/ y < -1 \/ y > height

\* the range test of both sweeps:
\* x < -1 || x > width || y < -1 || y > height
OutOfImage(x, y, width, height) ==
  x < -1 \/ x > width \/ y < -1 \/ y > height

\* the body of both sweeps after the range test: the point at `offset` nudged
NudgePoint(points, offset, width, height) ==
  LET x == AsI32(points[offset + 1])
      y == AsI32(points[offset + 2])
      px == IF x = -1 THEN AsF32(0)
            ELSE IF x = width THEN AsF32(width) - AsF32(1)
            ELSE points[offset + 1]
      py == IF y = -1 THEN AsF32(0)
            ELSE IF y = height THEN AsF32(height) - AsF32(1)
            ELSE points[offset + 2]
  IN  [points |-> [points EXCEPT ![offset + 1] = px, ![offset + 2] = py],
       nudged |-> (x = -1 \/ x = width \/ y = -1 \/ y = height)]

\* the first loop: while offset < max_offset && nudged { ...; offset += 2 }
RECURSIVE ForwardSweep(_, _, _, _, _)
ForwardSweep(points, offset, nudged, width, height) ==
  IF offset < Len(points) - 1 /\ nudged
  THEN IF OutOfImage(AsI32(points[offset + 1]), AsI32(points[offset + 2]), width, height)
       THEN [status |-> "NotFound", points |-> points]
       ELSE LET n == NudgePoint(points, offset, width, height)
            IN  ForwardSweep(n.points, offset + 2, n.nudged, width, height)
  ELSE [status |-> "Ok", points |-> points]

\* the second loop: while offset >= 0 && nudged { ...; offset += 2 }; offset is a
\* usize, so offset >= 0 always holds, and points[offset] panics past the end
RECURSIVE BackwardSweep(_, _, _, _, _)
BackwardSweep(points, offset, nudged, width, height) ==
  IF offset >= 0 /\ nudged
  THEN IF offset >= Len(points)
       THEN [status |-> "panic", points |-> points]
       ELSE IF OutOfImage(AsI32(points[offset + 1]), AsI32(points[offset + 2]),
                          width, height)
       THEN [status |-> "NotFound", points |-> points]
       ELSE LET n == NudgePoint(points, offset, width, height)
            IN  BackwardSweep(n.points, offset + 2, n.nudged, width, height)
  ELSE [status |-> "Ok", points |-> points]

\* GridSampler::checkAndNudgePoints; an empty list panics at points.len() - 1
\* (overflow check) or, with wrapping arithmetic, at points[0]
checkAndNudgePoints(points, width, height) ==
  IF Len(points) = 0
  THEN [status |-> "panic", points |-> points]
  ELSE LET f == ForwardSweep(points, 0, TRUE, width, height)
       IN  IF f.status = "NotFound"
           THEN f
           ELSE BackwardSweep(f.points, Len(points) - 2, TRUE, width, height)

\* the x and y coordinates the point lists are made of, in half units:
\* -2, -1.5, -1, -0.5, 0, width, width + 1 and -1, 0, height, height + 1
XCoords == {-4, -3, -2, -1, 0, 2 * ImageWidth, 2 * ImageWidth + 2}
YCoords == {-2, 0, 2 * ImageHeight, 2 * ImageHeight + 2}

(***************************************************************************)
(* 32-bit words of BitArray and BitMatrix.  A u32 is held as the set of    *)
(* the positions (0 = least significant .. 31) of its one bits.            *)
(***************************************************************************)
WordBits == 0..31

ZeroWord == {}

\* u32::reverse_bits
ReverseBits(w) == {31 - b : b \in w}

\* w >> k and w << k on a u32, for k in 0..31
ShrWord(w, k) == {b - k : b \in {c \in w : c >= k}}
ShlWord(w, k) == {b + k : b \in {c \in w : c + k <= 31}}

\* !w, a ^ b and a | b on a u32
NotWord(w) == WordBits \ w
XorWord(a, b) == (a \ b) \cup (b \ a)
OrWord(a, b) == a \cup b

\* 1 << (i & 0x1F)
BitMask(i) == {i % 32}

LowestBit(w) == CHOOSE b \in w : \A c \in w : b <= c
HighestBit(w) == CHOOSE b \in w : \A c \in w : b >= c

(***************************************************************************)
(* BitArray                                                                *)
(***************************************************************************)
\* the largest size of a BitArray made by with_size
MaxArrayBits == 66

\* BitArray::makeArray
makeArray(size) == [i \in 1..((size + 31) \div 32) |-> ZeroWord]

\* BitArray::new (EMPTY_BITS has no word)
BitArrayNew == [bits |-> <<>>, size |-> 0]

\* BitArray::with_size
with_size(size) == [bits |-> makeArray(size), size |-> size]

\* ceil(newSize as f32 / LOAD_FACTOR) for LOAD_FACTOR = 0.75
LoadedSize(newSize) == (4 * newSize + 2) \div 3

\* BitArray::ensure_capacity
ensure_capacity(a, newSize) ==
  IF newSize > Len(a.bits) * 32
  THEN LET newBits == makeArray(LoadedSize(newSize))
       IN  [a EXCEPT !.bits = [i \in 1..Len(newBits) |->
                                 IF i <= Len(a.bits) THEN a.bits[i] ELSE newBits[i]]]
  ELSE a

\* BitArray::get
BitArrayGet(a, i) == (i % 32) \in a.bits[(i \div 32) + 1]

\* BitArray::set
BitArraySet(a, i) ==
  [a EXCEPT !.bits[(i \div 32) + 1] = OrWord(@, BitMask(i))]

\* BitArray::setBulk
setBulk(a, i, newBits) == [a EXCEPT !.bits[(i \div 32) + 1] = newBits]

\* BitArray::clear
BitArrayClear(a) == [a EXCEPT !.bits = [i \in 1..Len(a.bits) |-> ZeroWord]]

\* BitArray::appendBit
appendBit(a, bit) ==
  LET e == ensure_capacity(a, a.size + 1)
      b == IF bit THEN BitArraySet(e, a.size) ELSE e
  IN  [b EXCEPT !.size = a.size + 1]

\* the loop of appendBits started at next_size = size: turn t (numBitsLeft =
\* num_bits - 1 - t) ors bit next_size + t into its word when value has the bit
\* numBitsLeft, so the turns write distinct bits and each word gains the bits
\* of the turns that fall in it
AppendBitsLoop(a, value, num_bits) ==
  [a EXCEPT !.bits =
     [k \in 1..Len(a.bits) |->
        OrWord(a.bits[k],
               {b \in WordBits :
                  LET next_size == 32 * (k - 1) + b
                  IN  /\ next_size >= a.size
                      /\ next_size < a.size + num_bits
                      /\ (num_bits - 1 - (next_size - a.size)) \in value})],
     !.size = a.size + num_bits]

\* BitArray::appendBits: the num_bits low bits of value, most significant first;
\* num_bits > 32 is refused and leaves the array as it was
appendBits(a, value, num_bits) ==
  IF num_bits > 32 \/ num_bits = 0 THEN a
  ELSE AppendBitsLoop(ensure_capacity(a, a.size + num_bits), value, num_bits)

\* BitArray::appendBitArray: capacity is made for all the bits of other first,
\* so no appendBit of the loop grows the vector; turn i ors bit size + i in
\* when other.get(i) holds
appendBitArray(a, other) ==
  LET e == ensure_capacity(a, a.size + other.size)
  IN  [e EXCEPT !.bits =
         [k \in 1..Len(e.bits) |->
            OrWord(e.bits[k],
                   {b \in WordBits :
                      LET i == 32 * (k - 1) + b - a.size
                      IN  i >= 0 /\ i < other.size /\ BitArrayGet(other, i)})],
         !.size = a.size + other.size]

\* BitArray::xor.  The loop runs over the words of self and indexes the words
\* of other with the same i: when other has fewer words the call panics at the
\* first word other lacks, the words before it already changed
BitArrayXor(a, other) ==
  LET common == Min(Len(a.bits), Len(other.bits))
      xored == [a EXCEPT !.bits = [i \in 1..Len(a.bits) |->
                  IF i <= common THEN XorWord(a.bits[i], other.bits[i])
                  ELSE a.bits[i]]]
  IN  IF a.size # other.size THEN [status |-> "IllegalArgument", a |-> a]
      ELSE IF Len(a.bits) > Len(other.bits) THEN [status |-> "panic", a |-> xored]
      ELSE [status |-> "Ok", a |-> xored]

\* the first loop of reverse: newBits[len - i] = bits[i].reverse_bits()
ReversedWords(a) ==
  LET len == (a.size - 1) \div 32
  IN  [j \in 1..Len(a.bits) |->
         IF j <= len + 1 THEN ReverseBits(a.bits[len - (j - 1) + 1]) ELSE ZeroWord]

\* the second loop of reverse: every word shifted down by leftOffset, taking its
\* high bits from the next word
ShiftedWords(newBits, oldBitsLen, leftOffset) ==
  [j \in 1..Len(newBits) |->
     IF j < oldBitsLen
     THEN OrWord(ShrWord(newBits[j], leftOffset),
                 ShlWord(newBits[j + 1], 32 - leftOffset))
     ELSE IF j = oldBitsLen THEN ShrWord(newBits[j], leftOffset)
     ELSE newBits[j]]

\* BitArray::reverse for size >= 1 without its second loop: the words are
\* reversed and not shifted down
ReverseWordsOnly(a) == [a EXCEPT !.bits = ReversedWords(a)]

\* BitArray::reverse for size >= 1
ReverseNonEmpty(a) ==
  LET oldBitsLen == ((a.size - 1) \div 32) + 1
      newBits == ReversedWords(a)
  IN  [a EXCEPT !.bits = IF a.size # oldBitsLen * 32
                         THEN ShiftedWords(newBits, oldBitsLen, oldBitsLen * 32 - a.size)
                         ELSE newBits]

\* BitArray::reverse.  With size = 0 the usize `self.size - 1` overflows: a panic
\* with overflow checks, and without them an index far past newBits, a panic too.
reverse(a) ==
  IF a.size = 0
  THEN [status |-> "panic", a |-> a]
  ELSE [status |-> "ok", a |-> ReverseNonEmpty(a)]

\* BitArray::getBitArray
getBitArray(a) == a.bits

(***************************************************************************)
(* BitMatrix                                                               *)
(***************************************************************************)
\* the largest width and height of a matrix made by BitMatrix::new
MaxWidth == 33
MaxHeight == 2

\* BitMatrix::new for width, height >= 1
BitMatrixNew(width, height) ==
  [width |-> width, height |-> height, row_size |-> (width + 31) \div 32,
   bits |-> [i \in 1..(((width + 31) \div 32) * height) |-> ZeroWord]]

\* BitMatrix::get
BitMatrixGet(m, x, y) == (x % 32) \in m.bits[y * m.row_size + (x \div 32) + 1]

\* BitMatrix::set
BitMatrixSet(m, x, y) ==
  [m EXCEPT !.bits[y * m.row_size + (x \div 32) + 1] = OrWord(@, BitMask(x))]

\* BitMatrix::unset
unset(m, x, y) ==
  [m EXCEPT !.bits[y * m.row_size + (x \div 32) + 1] = @ \ BitMask(x)]

\* BitMatrix::flip_coords
flip_coords(m, x, y) ==
  [m EXCEPT !.bits[y * m.row_size + (x \div 32) + 1] = XorWord(@, BitMask(x))]

\* BitMatrix::flip_self: every word of the backing vector is complemented
flip_self(m) == [m EXCEPT !.bits = [i \in 1..Len(m.bits) |-> NotWord(m.bits[i])]]

\* the loop of getRow: rw.setBulk(x * 32, bits[offset + x]) for x in 0..row_size
RECURSIVE GetRowLoop(_, _, _, _)
GetRowLoop(m, offset, x, rw) ==
  IF x < m.row_size
  THEN GetRowLoop(m, offset, x + 1, setBulk(rw, x * 32, m.bits[offset + x + 1]))
  ELSE rw

\* BitMatrix::getRow
getRow(m, y, row) ==
  GetRowLoop(m, y * m.row_size, 0,
             IF row.size < m.width THEN with_size(m.width) ELSE BitArrayClear(row))

\* BitMatrix::setRow: the first row_size words of row are copied over row y
setRow(m, y, row) ==
  [m EXCEPT !.bits = SubSeq(m.bits, 1, y * m.row_size)
                       \o SubSeq(getBitArray(row), 1, m.row_size)
                       \o SubSeq(m.bits, y * m.row_size + m.row_size + 1, Len(m.bits))]

\* BitMatrix::xor for a mask of the same width, height and row_size
XorRows(m, mask) ==
  LET rowArray == with_size(m.width)
  IN  [m EXCEPT !.bits = [i \in 1..Len(m.bits) |->
         XorWord(m.bits[i],
                 getBitArray(getRow(mask, (i - 1) \div m.row_size, rowArray))
                   [((i - 1) % m.row_size) + 1])]]

\* BitMatrix::xor
BitMatrixXor(m, mask) ==
  IF m.width # mask.width \/ m.height # mask.height \/ m.row_size # mask.row_size
  THEN [status |-> "IllegalArgument", m |-> m]
  ELSE [status |-> "Ok", m |-> XorRows(m, mask)]

\* BitMatrix::setRegion
setRegion(m, left, top, width, height) ==
  IF top < 0 \/ left < 0 THEN [status |-> "IllegalArgument", m |-> m]
  ELSE IF height < 1 \/ width < 1 THEN [status |-> "IllegalArgument", m |-> m]
  ELSE IF top + height > m.height \/ left + width > m.width
       THEN [status |-> "IllegalArgument", m |-> m]
  ELSE [status |-> "Ok",
        m |-> [m EXCEPT !.bits = [i \in 1..Len(m.bits) |->
                 LET y == (i - 1) \div m.row_size
                     x32 == (i - 1) % m.row_size
                 IN  IF y >= top /\ y < top + height
                     THEN OrWord(m.bits[i],
                                 {b \in WordBits : 32 * x32 + b >= left
                                                  /\ 32 * x32 + b < left + width})
                     ELSE m.bits[i]]]]

\* the loop of rotate180 run for i in 0..maxHeight: turn i reads the rows i and
\* height - 1 - i, reverses them as BitArrays of width bits and writes them
\* back swapped.  No turn reads a row that an earlier turn wrote, so row y of
\* the result is the reverse of row height - 1 - y of m when a turn wrote it,
\* and row y of m otherwise; the rows are never empty (width >= 1)
Rotate180Rows(m, maxHeight) ==
  [m EXCEPT !.bits =
     [k \in 1..Len(m.bits) |->
        LET y == (k - 1) \div m.row_size
            x == (k - 1) % m.row_size
            row == getRow(m, m.height - 1 - y, with_size(m.width))
        IN  IF y < maxHeight \/ m.height - 1 - y < maxHeight
            THEN getBitArray(reverse(row).a)[x + 1]
            ELSE m.bits[k]]]

\* BitMatrix::rotate180 with maxHeight = height / 2: the middle row of an odd
\* height is left as it is
rotate180SkipMiddle(m) == Rotate180Rows(m, m.height \div 2)

\* BitMatrix::rotate180
rotate180(m) == Rotate180Rows(m, (m.height + 1) \div 2)

\* BitMatrix::rotate90: the set bit (x, y) goes to row newHeight - 1 - x, column y
rotate90(m) ==
  LET newWidth == m.height
      newHeight == m.width
      newRowSize == (newWidth + 31) \div 32
  IN  [width |-> newWidth, height |-> newHeight, row_size |-> newRowSize,
       bits |-> [i \in 1..(newRowSize * newHeight) |->
                   LET x == newHeight - 1 - ((i - 1) \div newRowSize)
                       j == (i - 1) % newRowSize
                   IN  {b \in WordBits :
                          /\ 32 * j + b < m.height
                          /\ BitMatrixGet(m, x, 32 * j + b)}]]

\* BitMatrix::rotate matching on degrees itself instead of degrees % 360
rotateStrict(m, degrees) ==
  CASE degrees = 0 -> [status |-> "Ok", m |-> m]
    [] degrees = 90 -> [status |-> "Ok", m |-> rotate90(m)]
    [] degrees = 180 -> [status |-> "Ok", m |-> rotate180(m)]
    [] degrees = 270 -> [status |-> "Ok", m |-> rotate180(rotate90(m))]
    [] OTHER -> [status |-> "IllegalArgument", m |-> m]

\* BitMatrix::rotate
rotate(m, degrees) ==
  CASE degrees % 360 = 0 -> [status |-> "Ok", m |-> m]
    [] degrees % 360 = 90 -> [status |-> "Ok", m |-> rotate90(m)]
    [] degrees % 360 = 180 -> [status |-> "Ok", m |-> rotate180(m)]
    [] degrees % 360 = 270 -> [status |-> "Ok", m |-> rotate180(rotate90(m))]
    [] OTHER -> [status |-> "IllegalArgument", m |-> m]

\* the words of m that getEnclosingRectangle looks into (theBits != 0), by their
\* 0-based index
NonZeroWords(m) == {k \in 0..(Len(m.bits) - 1) : m.bits[k + 1] # ZeroWord}

\* the least and the greatest member of a non-empty set of numbers
LeastOf(S) == CHOOSE n \in S : \A o \in S : n <= o
GreatestOf(S) == CHOOSE n \in S : \A o \in S : n >= o

\* the loops of getEnclosingRectangle.  Every non-zero word lowers top and left
\* and raises bottom and right when its row, its lowest one bit and its highest
\* one bit pass them (the tests on x32 * 32 and x32 * 32 + 31 only skip words
\* that cannot), so the loops end with the least and the greatest of the start
\* values and the words' values
EnclosingLoop(m) ==
  LET W == NonZeroWords(m)
      y(k) == k \div m.row_size
      x32(k) == k % m.row_size
  IN  [left |-> LeastOf({m.width} \cup {x32(k) * 32 + LowestBit(m.bits[k + 1]) : k \in W}),
       top |-> LeastOf({m.height} \cup {y(k) : k \in W}),
       right |-> GreatestOf({0} \cup {x32(k) * 32 + HighestBit(m.bits[k + 1]) : k \in W}),
       bottom |-> GreatestOf({0} \cup {y(k) : k \in W})]

\* BitMatrix::getEnclosingRectangle; <<>> is None
getEnclosingRectangle(m) ==
  LET r == EnclosingLoop(m)
  IN  IF r.right < r.left \/ r.bottom < r.top
      THEN <<>>
      ELSE <<r.left, r.top, r.right - r.left + 1, r.bottom - r.top + 1>>

(***************************************************************************)
(* ECIEncoderSet and MinimalECIInput                                       *)
(*                                                                         *)
(* A char is its code point and a string the sequence of its chars.  An    *)
(* encoding is known by the lower-case name that getCharacterSetECI        *)
(* matches on ("iso-8859-1", "utf-8", ...).  An Option is <<>> for None    *)
(* and <<v>> for Some(v).                                                  *)
(***************************************************************************)
\* the chars the input strings are made of (GS, 'A', e acute, hiragana a),
\* the largest number of chars of a string, the priority charsets and the
\* fnc1 arguments
Alphabet == {29, 65, 233, 12354}
MaxChars == 3
Priorities == {"iso-8859-1", "utf-8", "big5"}
Fnc1Values == {-1, 29}

COST_PER_ECI == 3

\* the number of bytes of a char in a str (UTF-8), for chars below U+10000
Utf8Len(c) == IF c < 128 THEN 1 ELSE IF c < 2048 THEN 2 ELSE 3

\* str::len: the number of bytes
RECURSIVE StrLen(_)
StrLen(s) == IF s = <<>> THEN 0 ELSE Utf8Len(Head(s)) + StrLen(Tail(s))

\* str.chars().nth(i)
CharsNth(s, i) == IF i < Len(s) THEN <<s[i + 1]>> ELSE <<>>

\* `as u8` and `as i16`
AsU8(v) == v % 256
AsI16(v) == IF v % 65536 >= 32768 THEN (v % 65536) - 65536 ELSE v % 65536

\* the chars of i16::to_string: the decimal digits, and '-' below zero
RECURSIVE Digits(_)
Digits(n) == IF n < 10 THEN {48 + n} ELSE {48 + (n % 10)} \cup Digits(n \div 10)
ToStringChars(c) == IF c < 0 THEN {45} \cup Digits(-c) ELSE Digits(c)

\* the single byte encodings of ENCODERS that hold e acute (at 0xE9)
WithEAcute ==
  {"iso-8859-2", "iso-8859-3", "iso-8859-4", "iso-8859-9", "iso-8859-10",
   "iso-8859-13", "iso-8859-14", "iso-8859-15", "iso-8859-16", "windows-1250",
   "windows-1252", "windows-1256"}

\* Encoding::encode(c, EncoderTrap::Strict).is_ok() for the chars below U+0100
\* and hiragana a
CanEncodeChar(enc, c) ==
  CASE enc = "iso-8859-1" -> c <= 255
    [] enc \in {"utf-8", "utf-16be"} -> TRUE
    [] enc = "shift_jis" -> c < 128 \/ c = 12354
    [] OTHER -> c < 128 \/ (c = 233 /\ enc \in WithEAcute)

\* the bytes of Encoding::encode(c, EncoderTrap::Strict) when it is Ok
EncodedBytes(enc, c) ==
  CASE enc = "utf-8" ->
         IF c < 128 THEN <<c>>
         ELSE IF c < 2048 THEN <<192 + (c \div 64), 128 + (c % 64)>>
         ELSE <<224 + (c \div 4096), 128 + ((c \div 64) % 64), 128 + (c % 64)>>
    [] enc = "utf-16be" -> <<c \div 256, c % 256>>
    [] enc = "shift_jis" /\ c = 12354 -> <<130, 160>>
    [] OTHER -> <<c>>

\* str::starts_with("UTF") on the name of an encoding: the names are lower case
StartsWithUTF(name) == name \in {"UTF-8", "UTF-16BE", "UTF-16LE"}

\* ENCODERS: the encodings of NAMES that getCharacterSetECIByName knows
\* ("IBM437" is not among them)
ENCODERS ==
  <<"iso-8859-2", "iso-8859-3", "iso-8859-4", "iso-8859-5", "iso-8859-6",
    "iso-8859-7", "iso-8859-8", "iso-8859-9", "iso-8859-10", "iso-8859-11",
    "iso-8859-13", "iso-8859-14", "iso-8859-15", "iso-8859-16", "windows-1250",
    "windows-1251", "windows-1252", "windows-1256", "shift_jis">>

\* CharacterSetECI::getCharacterSetECI
getCharacterSetECI(name) ==
  CASE name = "CP437" -> <<"Cp437">>
    [] name = "iso-8859-1" -> <<"ISO8859_1">>
    [] name = "iso-8859-2" -> <<"ISO8859_2">>
    [] name = "iso-8859-3" -> <<"ISO8859_3">>
    [] name = "iso-8859-4" -> <<"ISO8859_4">>
    [] name = "iso-8859-5" -> <<"ISO8859_5">>
    [] name = "iso-8859-6" -> <<"ISO8859_6">>
    [] name = "iso-8859-7" -> <<"ISO8859_7">>
    [] name = "iso-8859-8" -> <<"ISO8859_8">>
    [] name = "iso-8859-9" -> <<"ISO8859_9">>
    [] name = "iso-8859-10" -> <<"ISO8859_10">>
    [] name = "iso-8859-11" -> <<"ISO8859_11">>
    [] name = "iso-8859-13" -> <<"ISO8859_13">>
    [] name = "iso-8859-14" -> <<"ISO8859_14">>
    [] name = "iso-8859-15" -> <<"ISO8859_15">>
    [] name = "iso-8859-16" -> <<"ISO8859_16">>
    [] name = "shift_jis" -> <<"SJIS">>
    [] name = "windows-1250" -> <<"Cp1250">>
    [] name = "windows-1251" -> <<"Cp1251">>
    [] name = "windows-1252" -> <<"Cp1252">>
    [] name = "windows-1256" -> <<"Cp1256">>
    [] name = "utf-16be" -> <<"UnicodeBigUnmarked">>
    [] name = "utf-8" -> <<"UTF8">>
    [] name = "us-ascii" -> <<"ASCII">>
    [] name = "big5" -> <<"Big5">>
    [] name = "gb2312" -> <<"GB18030">>
    [] name = "euc-kr" -> <<"EUC_KR">>
    [] OTHER -> <<>>

EncoderSetPanic == [status |-> "panic", encoders |-> <<>>, priorityEncoderIndex |-> 0]

\* the loop over ENCODERS in ECIEncoderSet::new; its index i also picks the
\* char that is tried, and chars().nth(i).unwrap() panics past the last char
RECURSIVE FindEncoder(_, _)
FindEncoder(stringToEncode, i) ==
  IF i >= Len(ENCODERS) THEN [status |-> "ok", found |-> <<>>]
  ELSE IF CharsNth(stringToEncode, i) = <<>> THEN [status |-> "panic", found |-> <<>>]
  ELSE IF CanEncodeChar(ENCODERS[i + 1], CharsNth(stringToEncode, i)[1])
       THEN [status |-> "ok", found |-> <<ENCODERS[i + 1]>>]
  ELSE FindEncoder(stringToEncode, i + 1)

\* the walk over the input in ECIEncoderSet::new: i runs over 0..len(), the
\* number of bytes, and chars().nth(i).unwrap() panics past the last char
RECURSIVE ScanInput(_, _, _, _, _)
ScanInput(stringToEncode, fnc1, i, neededEncoders, needUnicodeEncoder) ==
  IF i >= StrLen(stringToEncode)
  THEN [status |-> "ok", neededEncoders |-> neededEncoders,
        needUnicodeEncoder |-> needUnicodeEncoder]
  ELSE IF CharsNth(stringToEncode, i) = <<>>
  THEN [status |-> "panic", neededEncoders |-> neededEncoders,
        needUnicodeEncoder |-> needUnicodeEncoder]
  ELSE LET c == CharsNth(stringToEncode, i)[1]
           canEncode == \/ c = AsU8(fnc1)
                        \/ \E k \in 1..Len(neededEncoders) :
                             CanEncodeChar(neededEncoders[k], c)
           f == FindEncoder(stringToEncode, 0)
       IN  IF canEncode
           THEN ScanInput(stringToEncode, fnc1, i + 1, neededEncoders,
                          needUnicodeEncoder)
           ELSE IF f.status = "panic"
           THEN [status |-> "panic", neededEncoders |-> neededEncoders,
                 needUnicodeEncoder |-> needUnicodeEncoder]
           ELSE IF f.found # <<>>
           THEN ScanInput(stringToEncode, fnc1, i + 1,
                          Append(neededEncoders, f.found[1]), needUnicodeEncoder)
           ELSE ScanInput(stringToEncode, fnc1, i + 1, neededEncoders, TRUE)

\* the index of the first encoder named as the priority charset, else 0
PriorityIndex(encoders, priorityCharset) ==
  IF \E i \in 1..Len(encoders) : encoders[i] = priorityCharset
  THEN (CHOOSE i \in 1..Len(encoders) :
          /\ encoders[i] = priorityCharset
          /\ \A k \in 1..(i - 1) : encoders[k] # priorityCharset) - 1
  ELSE 0

\* ECIEncoderSet::new
ECIEncoderSetNew(stringToEncode, priorityCharset, fnc1) ==
  LET scan == ScanInput(stringToEncode, fnc1, 0, <<"iso-8859-1">>,
                        StartsWithUTF(priorityCharset))
      encoders == IF Len(scan.neededEncoders) = 1 /\ ~scan.needUnicodeEncoder
                  THEN <<"iso-8859-1">>
                  ELSE <<"utf-8", "utf-16be">> \o scan.neededEncoders
  IN  IF scan.status = "panic" THEN EncoderSetPanic
      ELSE IF encoders[1] # "iso-8859-1" THEN EncoderSetPanic
      ELSE [status |-> "ok", encoders |-> encoders,
            priorityEncoderIndex |-> PriorityIndex(encoders, priorityCharset)]

\* ECIEncoderSet::getECIValue
EncoderSetGetECIValue(encoderSet, encoderIndex) ==
  getValue(getCharacterSetECI(encoderSet.encoders[encoderIndex + 1])[1])

\* ECIEncoderSet::canEncode: the i16 is encoded as its decimal digits
canEncode(encoderSet, c, encoderIndex) ==
  \A d \in ToStringChars(c) : CanEncodeChar(encoderSet.encoders[encoderIndex + 1], d)

\* ECIEncoderSet::encode_char, which panics unless EncodeCharOk
EncodeCharOk(encoderSet, c, encoderIndex) ==
  CanEncodeChar(encoderSet.encoders[encoderIndex + 1], c)
encode_char(encoderSet, c, encoderIndex) ==
  EncodedBytes(encoderSet.encoders[encoderIndex + 1], c)

\* InputEdge::new, for a char that the encoder can encode
InputEdgeNew(c, encoderSet, encoderIndex, previous, fnc1) ==
  LET size == IF c = 1000 THEN 1
              ELSE Len(encode_char(encoderSet, AsU8(c), encoderIndex))
      previousEncoderIndex == IF previous = <<>> THEN 0 ELSE previous[1].encoderIndex
      eciCost == IF previousEncoderIndex # encoderIndex THEN COST_PER_ECI ELSE 0
      previousSize == IF previous = <<>> THEN 0 ELSE previous[1].cachedTotalSize
  IN  [c |-> IF c = fnc1 THEN 1000 ELSE c, encoderIndex |-> encoderIndex,
       previous |-> previous, cachedTotalSize |-> size + eciCost + previousSize]

\* InputEdge::isFNC1
InputEdgeIsFNC1(edge) == edge.c = 1000

\* MinimalECIInput::addEdge
addEdge(edges, to, edge) ==
  IF \/ edges[to][edge.encoderIndex] = <<>>
     \/ edges[to][edge.encoderIndex][1].cachedTotalSize > edge.cachedTotalSize
  THEN [edges EXCEPT ![to][edge.encoderIndex] = <<edge>>]
  ELSE edges

\* the loop of addEdges over the encoders start..end; InputEdge::new panics in
\* encode_char when the encoder cannot encode the char `ch as u8 as char`
RECURSIVE AddEdgesLoop(_, _, _, _, _, _, _, _)
AddEdgesLoop(encoderSet, edges, from, previous, fnc1, ch, i, end) ==
  IF i >= end THEN [status |-> "ok", edges |-> edges]
  ELSE IF ch = fnc1 \/ canEncode(encoderSet, ch, i)
  THEN IF ch # 1000 /\ ~EncodeCharOk(encoderSet, AsU8(ch), i)
       THEN [status |-> "panic", edges |-> edges]
       ELSE AddEdgesLoop(encoderSet,
                         addEdge(edges, from + 1,
                                 InputEdgeNew(ch, encoderSet, i, previous, fnc1)),
                         from, previous, fnc1, ch, i + 1, end)
  ELSE AddEdgesLoop(encoderSet, edges, from, previous, fnc1, ch, i + 1, end)

\* MinimalECIInput::addEdges; getPriorityEncoderIndex() >= 0 holds for a usize
addEdges(stringToEncode, encoderSet, edges, from, previous, fnc1) ==
  IF CharsNth(stringToEncode, from) = <<>>
  THEN [status |-> "panic", edges |-> edges]
  ELSE LET ch == AsI16(CharsNth(stringToEncode, from)[1])
           priority == encoderSet.priorityEncoderIndex
           usePriority == /\ priority >= 0
                          /\ (ch = fnc1 \/ canEncode(encoderSet, ch, priority))
           start == IF usePriority THEN priority ELSE 0
           end == IF usePriority THEN priority + 1 ELSE Len(encoderSet.encoders)
       IN  AddEdgesLoop(encoderSet, edges, from, previous, fnc1, ch, start, end)

\* the first inner loop of encodeMinimally at position i: the edges that end
\* at i are continued
RECURSIVE ExpandEdges(_, _, _, _, _, _)
ExpandEdges(stringToEncode, encoderSet, fnc1, edges, i, j) ==
  IF j >= Len(encoderSet.encoders) THEN [status |-> "ok", edges |-> edges]
  ELSE IF edges[i][j] # <<>> /\ i < StrLen(stringToEncode)
  THEN LET r == addEdges(stringToEncode, encoderSet, edges, i, edges[i][j], fnc1)
       IN  IF r.status = "panic" THEN r
           ELSE ExpandEdges(stringToEncode, encoderSet, fnc1, r.edges, i, j + 1)
  ELSE ExpandEdges(stringToEncode, encoderSet, fnc1, edges, i, j + 1)

\* the loop `for i in 0..=inputLength` of encodeMinimally.  Its second inner
\* loop writes edges[i - 1][j]; i is a usize and the loop starts at 0, so the
\* first turn panics (overflow check, or index out of range when wrapping)
RECURSIVE MinimallyLoop(_, _, _, _, _)
MinimallyLoop(stringToEncode, encoderSet, fnc1, edges, i) ==
  IF i > StrLen(stringToEncode) THEN [status |-> "ok", edges |-> edges]
  ELSE LET r == ExpandEdges(stringToEncode, encoderSet, fnc1, edges, i, 0)
       IN  IF r.status = "panic" THEN r
           ELSE IF i - 1 < 0 /\ Len(encoderSet.encoders) > 0
           THEN [status |-> "panic", edges |-> r.edges]
           ELSE MinimallyLoop(stringToEncode, encoderSet, fnc1,
                              [r.edges EXCEPT ![i - 1] =
                                 [j \in 0..(Len(encoderSet.encoders) - 1) |-> <<>>]],
                              i + 1)

\* the choice of minimalJ: the first encoder whose edge at inputLength has the
\* least cachedTotalSize; -1 when there is no edge
MinimalJ(row, n) ==
  IF \A j \in 0..(n - 1) : row[j] = <<>> THEN -1
  ELSE CHOOSE j \in 0..(n - 1) :
         /\ row[j] # <<>>
         /\ \A k \in 0..(n - 1) :
              row[k] # <<>> =>
                \/ row[k][1].cachedTotalSize > row[j][1].cachedTotalSize
                \/ (row[k][1].cachedTotalSize = row[j][1].cachedTotalSize /\ k >= j)

\* the walk back over the edges in encodeMinimally.  The loop over the bytes
\* of a char sets i = -1 after its first turn, so only the last byte is put
\* in front of intsAL
RECURSIVE Backtrace(_, _, _)
Backtrace(encoderSet, current, intsAL) ==
  IF current = <<>> THEN [status |-> "ok", bytes |-> intsAL]
  ELSE LET c == current[1]
           bytes == encode_char(encoderSet, AsU8(c.c), c.encoderIndex)
           withChar == IF InputEdgeIsFNC1(c) THEN <<1000>> \o intsAL
                       ELSE IF Len(bytes) - 1 >= 0
                       THEN <<bytes[Len(bytes)]>> \o intsAL
                       ELSE intsAL
           previousEncoderIndex == IF c.previous = <<>> THEN 0
                                   ELSE c.previous[1].encoderIndex
           withECI == IF previousEncoderIndex # c.encoderIndex
                      THEN <<(256 + EncoderSetGetECIValue(encoderSet, c.encoderIndex))
                               % 65536>> \o withChar
                      ELSE withChar
       IN  IF ~InputEdgeIsFNC1(c) /\ ~EncodeCharOk(encoderSet, AsU8(c.c), c.encoderIndex)
           THEN [status |-> "panic", bytes |-> intsAL]
           ELSE Backtrace(encoderSet, c.previous, withECI)

\* MinimalECIInput::encodeMinimally
encodeMinimally(stringToEncode, encoderSet, fnc1) ==
  LET inputLength == StrLen(stringToEncode)
      n == Len(encoderSet.encoders)
      noEdges == [i \in 0..inputLength |-> [j \in 0..(n - 1) |-> <<>>]]
      first == addEdges(stringToEncode, encoderSet, noEdges, 0, <<>>, fnc1)
      all == MinimallyLoop(stringToEncode, encoderSet, fnc1, first.edges, 0)
      minimalJ == MinimalJ(all.edges[inputLength], n)
  IN  IF first.status = "panic" \/ all.status = "panic" \/ minimalJ < 0
      THEN [status |-> "panic", bytes |-> <<>>]
      ELSE Backtrace(encoderSet, all.edges[inputLength][minimalJ], <<>>)

\* the single encoder branch of MinimalECIInput::new: one u16 for each of the
\* len() bytes of the string, taken from chars().nth(i).unwrap()
RECURSIVE SingleEncoderBytes(_, _, _, _)
SingleEncoderBytes(stringToEncode, fnc1, i, bytes_hld) ==
  IF i >= StrLen(stringToEncode) THEN [status |-> "ok", bytes |-> bytes_hld]
  ELSE IF CharsNth(stringToEncode, i) = <<>> THEN [status |-> "panic", bytes |-> <<>>]
  ELSE LET c == CharsNth(stringToEncode, i)[1]
       IN  SingleEncoderBytes(stringToEncode, fnc1, i + 1,
                              Append(bytes_hld,
                                     IF AsI16(c) = fnc1 THEN 1000 ELSE c % 65536))

\* MinimalECIInput::new
MinimalECIInputNew(stringToEncode, priorityCharset, fnc1) ==
  LET encoderSet == ECIEncoderSetNew(stringToEncode, priorityCharset, fnc1)
  IN  IF encoderSet.status = "panic" THEN [status |-> "panic", bytes |-> <<>>]
      ELSE IF Len(encoderSet.encoders) = 1
      THEN SingleEncoderBytes(stringToEncode, fnc1, 0, <<>>)
      ELSE encodeMinimally(stringToEncode, encoderSet, fnc1)

\* ECIInput::length for MinimalECIInput; inp holds bytes and fnc1
InputLength(inp) == Len(inp.bytes)

\* MinimalECIInput::isECI (u16::MAX is 65535)
isECI(inp, index) ==
  IF index < 0 \/ index >= InputLength(inp)
  THEN [status |-> "IndexOutOfBounds", value |-> FALSE]
  ELSE [status |-> "Ok",
        value |-> inp.bytes[index + 1] > 255 /\ inp.bytes[index + 1] <= 65535]

\* MinimalECIInput::isFNC1
isFNC1(inp, index) ==
  IF index < 0 \/ index >= InputLength(inp)
  THEN [status |-> "IndexOutOfBounds", value |-> FALSE]
  ELSE [status |-> "Ok", value |-> inp.bytes[index + 1] = 1000]

\* MinimalECIInput::charAt; the char is `as u8 as char`
charAt(inp, index) ==
  IF index < 0 \/ index >= InputLength(inp)
  THEN [status |-> "IndexOutOfBounds", value |-> 0]
  ELSE IF isECI(inp, index).value
  THEN [status |-> "IllegalArgument", value |-> 0]
  ELSE IF isFNC1(inp, index).value
  THEN [status |-> "Ok", value |-> AsU8(inp.fnc1)]
  ELSE [status |-> "Ok", value |-> AsU8(inp.bytes[index + 1])]

\* MinimalECIInput::getECIValue
MinimalGetECIValue(inp, index) ==
  IF index < 0 \/ index >= InputLength(inp)
  THEN [status |-> "IndexOutOfBounds", value |-> 0]
  ELSE IF ~isECI(inp, index).value
  THEN [status |-> "IllegalArgument", value |-> 0]
  ELSE [status |-> "Ok", value |-> inp.bytes[index + 1] - 256]

\* the answers of the four queries at one index
QueryAt(inp, index) ==
  [index |-> index, isECI |-> isECI(inp, index), isFNC1 |-> isFNC1(inp, index),
   charAt |-> charAt(inp, index), getECIValue |-> MinimalGetECIValue(inp, index)]

(***************************************************************************)
(* GlobalHistogramBinarizer                                                *)
(*                                                                         *)
(* An image is a width, a height and the luminance (0..255) of each pixel. *)
(* usize and u8 arithmetic that leaves its range panics in a build with    *)
(* overflow checks and wraps in a build without them; checks says which    *)
(* build runs.  The bucket counts and the scores stay far below 2^31 for   *)
(* the images of the model, so u32 and usize products are exact.           *)
(***************************************************************************)
LUMINANCE_BITS == 5
LUMINANCE_SHIFT == 8 - LUMINANCE_BITS
LUMINANCE_BUCKETS == 2 ^ LUMINANCE_BITS

\* the largest width and height of an image
MaxImageWidth == 5
MaxImageHeight == 5

\* the image whose pixels take the luminances la and lb in turn
Image(width, height, la, lb) ==
  [width |-> width, height |-> height,
   pix |-> [x \in 0..(width - 1), y \in 0..(height - 1) |->
              IF (x + y) % 2 = 0 THEN la ELSE lb]]

\* pixel >> LUMINANCE_SHIFT
BucketOf(pixel) == pixel \div (2 ^ LUMINANCE_SHIFT)

\* the pixels x in from..to-1 of the row that fall in bucket k
RowCount(img, row, from, to, k) ==
  Cardinality({x \in from..(to - 1) : BucketOf(img.pix[x, row]) = k})

\* the histogram of getBlackRow: every pixel of row y
RowBuckets(img, y) ==
  [k \in 0..(LUMINANCE_BUCKETS - 1) |-> RowCount(img, y, 0, img.width, k)]

\* the histogram of getBlackMatrix: the rows height * y / 5 for y in 1..5,
\* each from width / 5 to width * 4 / 5
MatrixBuckets(img) ==
  LET right == (img.width * 4) \div 5
      left == img.width \div 5
  IN  [k \in 0..(LUMINANCE_BUCKETS - 1) |->
         RowCount(img, (img.height * 1) \div 5, left, right, k)
         + RowCount(img, (img.height * 2) \div 5, left, right, k)
         + RowCount(img, (img.height * 3) \div 5, left, right, k)
         + RowCount(img, (img.height * 4) \div 5, left, right, k)]

\* GlobalHistogramBinarizer::estimateBlackPoint.  The first loop keeps the
\* first bucket of the greatest count (bucket 0 when all are empty); the second
\* loop computes x - firstPeak in usize, which underflows at x = 0 whenever
\* firstPeak > 0, and keeps the first bucket of the greatest score (bucket 0
\* when all scores are 0); the last loop runs from secondPeak down and keeps
\* the first bucket of the greatest valley score it meets
estimateBlackPoint(buckets, checks) ==
  LET numBuckets == LUMINANCE_BUCKETS
      X == 0..(numBuckets - 1)
      maxBucketCount == GreatestOf({0} \cup {buckets[x] : x \in X})
      peak == IF maxBucketCount = 0 THEN 0
              ELSE LeastOf({x \in X : buckets[x] = maxBucketCount})
      score(x) == buckets[x] * (x - peak) * (x - peak)
      secondPeakScore == GreatestOf({0} \cup {score(x) : x \in X})
      second == IF secondPeakScore = 0 THEN 0
                ELSE LeastOf({x \in X : score(x) = secondPeakScore})
      firstPeak == IF peak > second THEN second ELSE peak
      secondPeak == IF peak > second THEN peak ELSE second
      valley(x) == (x - firstPeak) * (x - firstPeak) * (secondPeak - x)
                     * (maxBucketCount - buckets[x])
      V == (firstPeak + 1)..secondPeak
      bestValleyScore == GreatestOf({valley(x) : x \in V})
      bestValley == GreatestOf({x \in V : valley(x) = bestValleyScore})
  IN  IF checks /\ peak > 0
      THEN [status |-> "panic", value |-> 0]
      ELSE IF secondPeak - firstPeak <= numBuckets \div 16
      THEN [status |-> "NotFound", value |-> 0]
      ELSE [status |-> "Ok", value |-> bestValley * (2 ^ LUMINANCE_SHIFT)]

\* GlobalHistogramBinarizer::getBlackMatrix: the pixels below the black point
\* are set
getBlackMatrix(img, checks) ==
  LET blackPoint == estimateBlackPoint(MatrixBuckets(img), checks)
      matrix == BitMatrixNew(img.width, img.height)
  IN  IF blackPoint.status # "Ok"
      THEN [status |-> blackPoint.status, blackPoint |-> blackPoint, m |-> matrix]
      ELSE [status |-> "Ok", blackPoint |-> blackPoint,
            m |-> [matrix EXCEPT !.bits =
                     [k \in 1..Len(matrix.bits) |->
                        {b \in WordBits :
                           LET x == 32 * ((k - 1) % matrix.row_size) + b
                               y == (k - 1) \div matrix.row_size
                           IN  /\ x < img.width
                               /\ img.pix[x, y] < blackPoint.value}]]]

\* ((center * 4) - left - right) in u8: out of range when center * 4 passes 255
\* or a subtraction passes below 0
FilterOverflows(left, center, right) ==
  center * 4 > 255 \/ center * 4 - left < 0 \/ center * 4 - left - right < 0

BoxFilter(left, center, right) == ((center * 4) - left - right) % 256

\* GlobalHistogramBinarizer::getBlackRow
getBlackRow(img, y, row, checks) ==
  LET width == img.width
      fresh == IF row.size < width THEN with_size(width) ELSE BitArrayClear(row)
      blackPoint == estimateBlackPoint(RowBuckets(img, y), checks)
      lum(x) == img.pix[x, y]
      Inner == 1..(width - 2)
      black == IF width < 3
               THEN {x \in 0..(width - 1) : lum(x) < blackPoint.value}
               ELSE {x \in Inner :
                       BoxFilter(lum(x - 1), lum(x), lum(x + 1)) \div 2
                         < blackPoint.value}
  IN  IF blackPoint.status # "Ok"
      THEN [status |-> blackPoint.status, blackPoint |-> blackPoint, row |-> fresh]
      ELSE IF /\ checks
              /\ width >= 3
              /\ \E x \in Inner : FilterOverflows(lum(x - 1), lum(x), lum(x + 1))
      THEN [status |-> "panic", blackPoint |-> blackPoint, row |-> fresh]
      ELSE [status |-> "Ok", blackPoint |-> blackPoint,
            row |-> [fresh EXCEPT !.bits =
                       [k \in 1..Len(fresh.bits) |->
                          {b \in WordBits : (32 * (k - 1) + b) \in black}]]]

(***************************************************************************)
(* HybridBinarizer: a black point for every block of 8 x 8 pixels, then a  *)
(* threshold for every block from the 5 x 5 black points around it.  The   *)
(* luminances are the buffer of getMatrix, pixel (x, y) at y * width + x.  *)
(***************************************************************************)
BLOCK_SIZE_POWER == 3
BLOCK_SIZE == 2 ^ BLOCK_SIZE_POWER
BLOCK_SIZE_MASK == BLOCK_SIZE - 1
MINIMUM_DIMENSION == BLOCK_SIZE * 5
MIN_DYNAMIC_RANGE == 24

\* luminances[i]
LuminanceAt(img, i) == img.pix[i % img.width, i \div img.width]

\* sub_width and sub_height of getBlackMatrix: n >> 3, one more when
\* n & BLOCK_SIZE_MASK is not 0
SubSize(n) ==
  (n \div BLOCK_SIZE) + (IF n % (BLOCK_SIZE_MASK + 1) # 0 THEN 1 ELSE 0)

\* xoffset and yoffset: k << 3, or the last offset of a whole block when
\* that is less
BlockOffset(k, n) ==
  IF k * BLOCK_SIZE > n - BLOCK_SIZE THEN n - BLOCK_SIZE ELSE k * BLOCK_SIZE

\* the offsets offset + xx that the loops over a block read, offset running
\* from yoffset * width + xoffset by width
BlockReads(width, xoffset, yoffset) ==
  {(yoffset + yy) * width + xoffset + xx :
     yy \in 0..(BLOCK_SIZE - 1), xx \in 0..(BLOCK_SIZE - 1)}

\* the sum of the 8 pixels from offset on
RowSum(img, offset) ==
  LuminanceAt(img, offset) + LuminanceAt(img, offset + 1)
    + LuminanceAt(img, offset + 2) + LuminanceAt(img, offset + 3)
    + LuminanceAt(img, offset + 4) + LuminanceAt(img, offset + 5)
    + LuminanceAt(img, offset + 6) + LuminanceAt(img, offset + 7)

\* sum over the 8 rows of a block
BlockSum(img, offset) ==
  RowSum(img, offset) + RowSum(img, offset + img.width)
    + RowSum(img, offset + 2 * img.width) + RowSum(img, offset + 3 * img.width)
    + RowSum(img, offset + 4 * img.width) + RowSum(img, offset + 5 * img.width)
    + RowSum(img, offset + 6 * img.width) + RowSum(img, offset + 7 * img.width)

\* half the least pixel for every block of low contrast
BlackPointHalfMin(img, subWidth, x, y, blackPoints) ==
  LET yoffset == BlockOffset(y, img.height)
      xoffset == BlockOffset(x, img.width)
      pixels == {LuminanceAt(img, i) : i \in BlockReads(img.width, xoffset, yoffset)}
      sum == BlockSum(img, yoffset * img.width + xoffset)
  IN  IF GreatestOf(pixels) - LeastOf(pixels) <= MIN_DYNAMIC_RANGE
      THEN LeastOf(pixels) \div 2
      ELSE sum \div (2 ^ (BLOCK_SIZE_POWER * 2))
\* the black point of the block (x, y), given the black points of the blocks
\* before it in row order.  min and max are followed row by row until their
\* difference passes MIN_DYNAMIC_RANGE; when it never does they are those of
\* the whole block
BlackPointOf(img, subWidth, x, y, blackPoints) ==
  LET yoffset == BlockOffset(y, img.height)
      xoffset == BlockOffset(x, img.width)
      pixels == {LuminanceAt(img, i) : i \in BlockReads(img.width, xoffset, yoffset)}
      sum == BlockSum(img, yoffset * img.width + xoffset)
      min == LeastOf(pixels)
      max == GreatestOf(pixels)
      at(yy, xx) == blackPoints[yy * subWidth + xx + 1]
      average_neighbor_black_point ==
        (at(y - 1, x) + (2 * at(y, x - 1)) + at(y - 1, x - 1)) \div 4
  IN  IF max - min <= MIN_DYNAMIC_RANGE
      THEN IF y > 0 /\ x > 0 /\ min < average_neighbor_black_point
           THEN average_neighbor_black_point
           ELSE min \div 2
      ELSE sum \div (2 ^ (BLOCK_SIZE_POWER * 2))

\* the loops of calculateBlackPoints from the k-th block in row order
RECURSIVE BlackPointsLoop(_, _, _, _, _)
BlackPointsLoop(img, subWidth, subHeight, k, blackPoints) ==
  IF k >= subWidth * subHeight THEN blackPoints
  ELSE TheOne({BlackPointsLoop(img, subWidth, subHeight, k + 1, appended) :
                 appended \in {Append(blackPoints,
                                       BlackPointOf(img, subWidth, k % subWidth,
                                                    k \div subWidth, blackPoints))}})

\* HybridBinarizer::calculateBlackPoints: blackPoints[y][x] is at
\* y * subWidth + x + 1 of the result
calculateBlackPoints(img, subWidth, subHeight) ==
  BlackPointsLoop(img, subWidth, subHeight, 0, <<>>)

\* cap without the upper limit
capBelow(value, max) == IF value < 2 THEN 2 ELSE value
\* HybridBinarizer::cap
cap(value, max) == IF value < 2 THEN 2 ELSE Min(value, max)

\* the indexes (row, column) of black_points that calculateThresholdForBlock
\* uses for the block (x, y)
WindowOf(sub_width, sub_height, x, y) ==
  LET top == cap(y, sub_height - 3)
      left == cap(x, sub_width - 3)
  IN  {<<top + z, left + k>> : z \in -2..2, k \in -2..2}

\* sum / 25 of calculateThresholdForBlock for the block (x, y)
ThresholdOf(sub_width, sub_height, x, y, black_points) ==
  LET top == cap(y, sub_height - 3)
      left == cap(x, sub_width - 3)
      row(z) == black_points[(top + z) * sub_width + (left - 2) + 1]
                  + black_points[(top + z) * sub_width + (left - 1) + 1]
                  + black_points[(top + z) * sub_width + left + 1]
                  + black_points[(top + z) * sub_width + (left + 1) + 1]
                  + black_points[(top + z) * sub_width + (left + 2) + 1]
  IN  (row(-2) + row(-1) + row(0) + row(1) + row(2)) \div 25

\* thresholdBlock for every block: the pixels at or below the threshold of
\* their block
BlackPixels(img, Blocks, threshold) ==
  UNION {{<<BlockOffset(b[1], img.width) + p[1], BlockOffset(b[2], img.height) + p[2]>> :
            p \in {q \in (0..(BLOCK_SIZE - 1)) \X (0..(BLOCK_SIZE - 1)) :
                     img.pix[BlockOffset(b[1], img.width) + q[1],
                             BlockOffset(b[2], img.height) + q[2]] <= threshold[b]}} :
         b \in Blocks}

\* HybridBinarizer::calculateThresholdForBlock with thresholdBlock: the
\* matrix, the indexes of black_points used, and the offsets of luminances
\* read.  An index outside black_points or outside luminances is a panic
calculateThresholdForBlock(img, sub_width, sub_height, black_points, matrix) ==
  LET Blocks == (0..(sub_width - 1)) \X (0..(sub_height - 1))
      window == UNION {WindowOf(sub_width, sub_height, b[1], b[2]) : b \in Blocks}
      reads == UNION {BlockReads(img.width, BlockOffset(b[1], img.width),
                                 BlockOffset(b[2], img.height)) : b \in Blocks}
      inRange == /\ sub_width >= 3
                 /\ sub_height >= 3
                 /\ \A i \in window : i[1] \in 0..(sub_height - 1) /\ i[2] \in 0..(sub_width - 1)
                 /\ \A i \in reads : i \in 0..(img.width * img.height - 1)
  IN  IF ~inRange
      THEN [status |-> "panic", m |-> matrix, window |-> window, reads |-> reads]
      ELSE TheOne({
             [status |-> "Ok", window |-> window, reads |-> reads,
              m |-> [matrix EXCEPT !.bits =
                       [k \in 1..Len(matrix.bits) |->
                          {b \in WordBits :
                             LET x == 32 * ((k - 1) % matrix.row_size) + b
                                 y == (k - 1) \div matrix.row_size
                             IN  <<x, y>> \in black}]]] :
             black \in {TheOne({BlackPixels(img, Blocks, threshold) :
                                threshold \in {[b \in Blocks |->
                                  ThresholdOf(sub_width, sub_height, b[1], b[2],
                                              black_points)]}})}})

\* HybridBinarizer::getBlackMatrix
HybridGetBlackMatrix(img, checks) ==
  IF img.width >= MINIMUM_DIMENSION /\ img.height >= MINIMUM_DIMENSION
  THEN LET sub_width == SubSize(img.width)
           sub_height == SubSize(img.height)
       IN  TheOne({
             TheOne({[status |-> r.status, m |-> r.m, black_points |-> black_points,
                      window |-> r.window, reads |-> r.reads] :
                     r \in {TheOne({calculateThresholdForBlock(
                                       img, sub_width, sub_height, black_points, matrix) :
                                     matrix \in {BitMatrixNew(img.width, img.height)}})}}) :
             black_points \in {calculateBlackPoints(img, sub_width, sub_height)}})
  ELSE LET r == getBlackMatrix(img, checks)
       IN  [status |-> r.status, m |-> r.m, black_points |-> <<>>,
            window |-> {}, reads |-> {}]

(***************************************************************************)
(* ECIStringBuilder (eci_string_builder.rs): a byte buffer and the list    *)
(* of its (eci, start, end) segments.  A string is the sequence of its     *)
(* chars, an Option the sequence of none or one value.                     *)
(***************************************************************************)
\* ECIStringBuilder::default and with_capacity
ECIStringBuilderNew ==
  [is_eci |-> FALSE, eci_result |-> <<>>, bytes |-> <<>>, eci_positions |-> <<>>]

\* ECIStringBuilder::append_bytes
append_bytes(b, value) == [b EXCEPT !.eci_result = <<>>, !.bytes = @ \o value]

\* ECIStringBuilder::append_byte
append_byte(b, value) == [b EXCEPT !.eci_result = <<>>, !.bytes = Append(@, value)]

\* ECIStringBuilder::append_char: the lowest byte of the char
append_char(b, value) == [b EXCEPT !.eci_result = <<>>, !.bytes = Append(@, AsU8(value))]

\* ECIStringBuilder::append_eci
append_eci(b, eci) ==
  LET is_eci == b.is_eci \/ eci # "ISO8859_1"
      n == Len(b.eci_positions)
      closed == IF n = 0 THEN b.eci_positions
                ELSE [b.eci_positions EXCEPT ![n][3] = Len(b.bytes)]
  IN  [b EXCEPT !.eci_result = <<>>,
                !.is_eci = is_eci,
                !.eci_positions =
                  IF is_eci THEN Append(closed, <<eci, Len(b.bytes), 0>>) ELSE @]

\* str::is_ascii
IsAscii(value) == \A i \in 1..Len(value) : value[i] < 128

\* str::as_bytes: the UTF-8 bytes of the chars
RECURSIVE AsBytes(_)
AsBytes(value) ==
  IF value = <<>> THEN <<>>
  ELSE EncodedBytes("utf-8", Head(value)) \o AsBytes(Tail(value))

\* ECIStringBuilder::append_string
append_string(b, value) ==
  LET marked == IF IsAscii(value) THEN b ELSE append_eci(b, "UTF8")
  IN  [marked EXCEPT !.eci_result = <<>>, !.bytes = @ \o AsBytes(value)]

\* ECIStringBuilder::appendCharacters
appendCharacters(b, value) == append_string(b, value)

\* the decoding of UTF-8 bytes, for chars below U+0800: none when a byte
\* starts no char or a two byte char lacks its second byte
RECURSIVE Utf8Decode(_)
Utf8Decode(bytes) ==
  IF bytes = <<>> THEN <<<<>>>>
  ELSE IF bytes[1] < 128
  THEN LET rest == Utf8Decode(Tail(bytes))
       IN  IF rest = <<>> THEN <<>> ELSE <<(<<bytes[1]>>) \o rest[1]>>
  ELSE IF bytes[1] \in 194..223 /\ Len(bytes) >= 2 /\ bytes[2] \in 128..191
  THEN LET rest == Utf8Decode(Tail(Tail(bytes)))
       IN  IF rest = <<>> THEN <<>>
           ELSE <<(<<64 * (bytes[1] - 192) + (bytes[2] - 128)>>) \o rest[1]>>
  ELSE <<>>

\* CharacterSet::decode(bytes).ok() of the character set of an ECI: UTF-8,
\* or ISO-8859-1 whose bytes are the chars
CharacterSetDecode(eci, bytes) ==
  IF eci = "UTF8" THEN Utf8Decode(bytes) ELSE <<bytes>>

\* ECIStringBuilder::encode_segment
encode_segment(bytes, eci) ==
  LET encoded_string ==
        IF eci \notin {"Binary", "Unknown"}
        THEN IF bytes # <<>> THEN CharacterSetDecode(eci, bytes) ELSE <<>>
        ELSE <<bytes>>
  IN  IF encoded_string = <<>> \/ encoded_string = <<<<>>>> THEN <<>>
      ELSE encoded_string

\* Option::unwrap_or_default of a string
UnwrapOrDefault(o) == IF o = <<>> THEN <<>> ELSE o[1]

\* bytes[start..end] of a slice
Slice(bytes, start, end) == SubSeq(bytes, start + 1, end)

\* the loop of encodeCurrentBytesIfAny over the segments from the k-th
RECURSIVE EncodeSegments(_, _)
EncodeSegments(b, k) ==
  IF k > Len(b.eci_positions) THEN <<>>
  ELSE LET eci == b.eci_positions[k][1]
           eci_start == b.eci_positions[k][2]
           eci_end == b.eci_positions[k][3]
           end == IF eci_end = 0 THEN Len(b.bytes) ELSE eci_end
       IN  UnwrapOrDefault(encode_segment(Slice(b.bytes, eci_start, end), eci))
             \o EncodeSegments(b, k + 1)

\* ECIStringBuilder::encodeCurrentBytesIfAny
encodeCurrentBytesIfAny(b) ==
  LET end == IF b.eci_positions = <<>> THEN Len(b.bytes) ELSE b.eci_positions[1][2]
  IN  UnwrapOrDefault(encode_segment(Slice(b.bytes, 0, end), "ISO8859_1"))
        \o EncodeSegments(b, 1)

\* ECIStringBuilder::build_result
build_result(b) == [b EXCEPT !.eci_result = <<encodeCurrentBytesIfAny(b)>>]

\* Display for ECIStringBuilder (to_string)
to_string(b) ==
  IF b.eci_result # <<>> THEN b.eci_result[1] ELSE encodeCurrentBytesIfAny(b)

(***************************************************************************)
(* f32: the IEEE 754 binary32 numbers of PerspectiveTransform, rounded to  *)
(* the nearest, ties to even, after every operation.  A finite number is   *)
(* s * m * 2^e with s the sign and m = 0 or 2^23 <= m < 2^24; the zeros    *)
(* are one value, and so are the infinities and NaN (NotFinite).  The      *)
(* exponent range of binary32 is not reached by the corners taken here.    *)
(***************************************************************************)
F32Zero == [k |-> "num", s |-> 1, m |-> 0, e |-> 0]

NotFinite == [k |-> "nan", s |-> 1, m |-> 0, e |-> 0]

\* the number of bits of n, for 0 <= n < 2^30
BitLen(n) == CHOOSE k \in 0..30 : n < 2 ^ k /\ (k = 0 \/ n >= 2 ^ (k - 1))

\* the binary32 nearest to s * (n + t) * 2^e, where 0 <= n < 2^30 and t in
\* (0, 1) stands for bits below n when sticky, t = 0 otherwise; a sticky n
\* has 26 bits at least
F32Round(s, n, e, sticky) ==
  IF n = 0 THEN F32Zero
  ELSE LET bits == BitLen(n)
       IN  IF bits <= 24
           THEN [k |-> "num", s |-> s, m |-> n * 2 ^ (24 - bits), e |-> e - (24 - bits)]
           ELSE LET shift == bits - 24
                    q == n \div 2 ^ shift
                    r == n % 2 ^ shift
                    half == 2 ^ (shift - 1)
                    up == r > half \/ (r = half /\ (sticky \/ q % 2 = 1))
                    m == IF up THEN q + 1 ELSE q
                IN  IF m = 2 ^ 24
                    THEN [k |-> "num", s |-> s, m |-> 2 ^ 23, e |-> e + shift + 1]
                    ELSE [k |-> "num", s |-> s, m |-> m, e |-> e + shift]

\* an integer literal or `as f32` of an integer below 2^30 in size
F32FromInt(n) == F32Round(IF n < 0 THEN -1 ELSE 1, IF n < 0 THEN -n ELSE n, 0, FALSE)

\* a * b: the 48 bit product of the significands from their 12 bit halves
F32Mul(a, b) ==
  IF a.k = "nan" \/ b.k = "nan" THEN NotFinite
  ELSE IF a.m = 0 \/ b.m = 0 THEN F32Zero
  ELSE LET a1 == a.m \div 4096
           a0 == a.m % 4096
           b1 == b.m \div 4096
           b0 == b.m % 4096
           mid == a1 * b0 + a0 * b1
           lo == a0 * b0 + (mid % 4096) * 4096
           hi == a1 * b1 + (mid \div 4096) + (lo \div 2 ^ 24)
           low == lo % 2 ^ 24
       IN  F32Round(a.s * b.s, hi * 16 + (low \div 2 ^ 20), a.e + b.e + 20,
                    low % 2 ^ 20 # 0)

\* k more bits of the long division by b
DivStep(qr, b, k) ==
  <<qr[1] * 2 ^ k + ((qr[2] * 2 ^ k) \div b), (qr[2] * 2 ^ k) % b>>

\* a / b: 26 bits of the quotient of the significands and whether a
\* remainder is left; a division by zero is not finite
F32Div(a, b) ==
  IF a.k = "nan" \/ b.k = "nan" \/ b.m = 0 THEN NotFinite
  ELSE IF a.m = 0 THEN F32Zero
  ELSE LET q0 == <<a.m \div b.m, a.m % b.m>>
           q6 == DivStep(q0, b.m, 6)
           q12 == DivStep(q6, b.m, 6)
           q18 == DivStep(q12, b.m, 6)
           q24 == DivStep(q18, b.m, 6)
           q26 == DivStep(q24, b.m, 2)
       IN  F32Round(a.s * b.s, q26[1], a.e - b.e - 26, q26[2] # 0)

\* -a
F32Neg(a) == IF a.k = "nan" \/ a.m = 0 THEN a ELSE [a EXCEPT !.s = -a.s]

\* a + b: the smaller operand is shifted to the exponent of the larger one
\* with three more bits and a sticky bit
F32Add(a, b) ==
  IF a.k = "nan" \/ b.k = "nan" THEN NotFinite
  ELSE IF a.m = 0 THEN b
  ELSE IF b.m = 0 THEN a
  ELSE LET aFirst == a.e > b.e \/ (a.e = b.e /\ a.m >= b.m)
           big == IF aFirst THEN a ELSE b
           small == IF aFirst THEN b ELSE a
           d == big.e - small.e
           shifted == IF d > 27 THEN 0 ELSE (small.m * 8) \div 2 ^ d
           sticky == IF d > 27 THEN TRUE ELSE (small.m * 8) % 2 ^ d # 0
       IN  IF big.s = small.s
           THEN F32Round(big.s, big.m * 8 + shifted, big.e - 3, sticky)
           ELSE F32Round(big.s, big.m * 8 - shifted - (IF sticky THEN 1 ELSE 0),
                         big.e - 3, sticky)

\* a - b
F32Sub(a, b) == F32Add(a, F32Neg(b))

\* a == 0.0
F32IsZero(a) == a.k = "num" /\ a.m = 0

(***************************************************************************)
(* PerspectiveTransform                                                    *)
(***************************************************************************)
\* PerspectiveTransform::new: the arguments come column by column
PerspectiveTransformNew(a11, a21, a31, a12, a22, a32, a13, a23, a33) ==
  [a11 |-> a11, a12 |-> a12, a13 |-> a13,
   a21 |-> a21, a22 |-> a22, a23 |-> a23,
   a31 |-> a31, a32 |-> a32, a33 |-> a33]

\* PerspectiveTransform::squareToQuadrilateral
squareToQuadrilateral(x0, y0, x1, y1, x2, y2, x3, y3) ==
  LET dx3 == F32Sub(F32Add(F32Sub(x0, x1), x2), x3)
      dy3 == F32Sub(F32Add(F32Sub(y0, y1), y2), y3)
  IN  IF F32IsZero(dx3) /\ F32IsZero(dy3)
      THEN PerspectiveTransformNew(
             F32Sub(x1, x0), F32Sub(x2, x1), x0,
             F32Sub(y1, y0), F32Sub(y2, y1), y0,
             F32Zero, F32Zero, F32FromInt(1))
      ELSE LET dx1 == F32Sub(x1, x2)
               dx2 == F32Sub(x3, x2)
               dy1 == F32Sub(y1, y2)
               dy2 == F32Sub(y3, y2)
               denominator == F32Sub(F32Mul(dx1, dy2), F32Mul(dx2, dy1))
               a13 == F32Div(F32Sub(F32Mul(dx3, dy2), F32Mul(dx2, dy3)), denominator)
               a23 == F32Div(F32Sub(F32Mul(dx1, dy3), F32Mul(dx3, dy1)), denominator)
           IN  PerspectiveTransformNew(
                 F32Add(F32Sub(x1, x0), F32Mul(a13, x1)),
                 F32Add(F32Sub(x3, x0), F32Mul(a23, x3)),
                 x0,
                 F32Add(F32Sub(y1, y0), F32Mul(a13, y1)),
                 F32Add(F32Sub(y3, y0), F32Mul(a23, y3)),
                 y0,
                 a13, a23, F32FromInt(1))

\* a * b - c * d, the shape of every entry of the adjoint
Cofactor(a, b, c, d) == F32Sub(F32Mul(a, b), F32Mul(c, d))

\* the cofactor matrix, not transposed
buildCofactors(t) ==
  PerspectiveTransformNew(
    Cofactor(t.a22, t.a33, t.a23, t.a32),
    Cofactor(t.a13, t.a32, t.a12, t.a33),
    Cofactor(t.a12, t.a23, t.a13, t.a22),
    Cofactor(t.a23, t.a31, t.a21, t.a33),
    Cofactor(t.a11, t.a33, t.a13, t.a31),
    Cofactor(t.a13, t.a21, t.a11, t.a23),
    Cofactor(t.a21, t.a32, t.a22, t.a31),
    Cofactor(t.a12, t.a31, t.a11, t.a32),
    Cofactor(t.a11, t.a22, t.a12, t.a21))
\* PerspectiveTransform::buildAdjoint
buildAdjoint(t) ==
  PerspectiveTransformNew(
    Cofactor(t.a22, t.a33, t.a23, t.a32),
    Cofactor(t.a23, t.a31, t.a21, t.a33),
    Cofactor(t.a21, t.a32, t.a22, t.a31),
    Cofactor(t.a13, t.a32, t.a12, t.a33),
    Cofactor(t.a11, t.a33, t.a13, t.a31),
    Cofactor(t.a12, t.a31, t.a11, t.a32),
    Cofactor(t.a12, t.a23, t.a13, t.a22),
    Cofactor(t.a13, t.a21, t.a11, t.a23),
    Cofactor(t.a11, t.a22, t.a12, t.a21))

\* PerspectiveTransform::quadrilateralToSquare
quadrilateralToSquare(x0, y0, x1, y1, x2, y2, x3, y3) ==
  buildAdjoint(squareToQuadrilateral(x0, y0, x1, y1, x2, y2, x3, y3))

\* a * b + c * d + e * f, added from the left: the shape of every entry of times
Dot3(a, b, c, d, e, f) ==
  F32Add(F32Add(F32Mul(a, b), F32Mul(c, d)), F32Mul(e, f))

\* PerspectiveTransform::times
times(t, other) ==
  PerspectiveTransformNew(
    Dot3(t.a11, other.a11, t.a21, other.a12, t.a31, other.a13),
    Dot3(t.a11, other.a21, t.a21, other.a22, t.a31, other.a23),
    Dot3(t.a11, other.a31, t.a21, other.a32, t.a31, other.a33),
    Dot3(t.a12, other.a11, t.a22, other.a12, t.a32, other.a13),
    Dot3(t.a12, other.a21, t.a22, other.a22, t.a32, other.a23),
    Dot3(t.a12, other.a31, t.a22, other.a32, t.a32, other.a33),
    Dot3(t.a13, other.a11, t.a23, other.a12, t.a33, other.a13),
    Dot3(t.a13, other.a21, t.a23, other.a22, t.a33, other.a23),
    Dot3(t.a13, other.a31, t.a23, other.a32, t.a33, other.a33))

\* the corners of a quadrilateral as f32
QuadF32(q) == [i \in 1..8 |-> F32FromInt(q[i])]

\* PerspectiveTransform::quadrilateralToQuadrilateral, the sixteen
\* coordinates given as two quadrilaterals
quadrilateralToQuadrilateral(q, qp) ==
  LET q_to_s == quadrilateralToSquare(q[1], q[2], q[3], q[4], q[5], q[6], q[7], q[8])
      s_to_q == squareToQuadrilateral(qp[1], qp[2], qp[3], qp[4], qp[5], qp[6],
                                      qp[7], qp[8])
  IN  times(s_to_q, q_to_s)

\* PerspectiveTransform::transform_points_single, for one point or more
transform_points_single(t, points) ==
  [i \in 1..Len(points) |->
     LET x == points[IF i % 2 = 1 THEN i ELSE i - 1]
         y == points[IF i % 2 = 1 THEN i + 1 ELSE i]
         denominator == F32Add(F32Add(F32Mul(t.a13, x), F32Mul(t.a23, y)), t.a33)
     IN  IF i % 2 = 1
         THEN F32Div(F32Add(F32Add(F32Mul(t.a11, x), F32Mul(t.a21, y)), t.a31),
                     denominator)
         ELSE F32Div(F32Add(F32Add(F32Mul(t.a12, x), F32Mul(t.a22, y)), t.a32),
                     denominator)]

(***************************************************************************)
(* DefaultGridSampler::sample_grid                                         *)
(***************************************************************************)
\* 0.5f32
F32Half == F32Round(1, 1, -1, FALSE)

\* an f32 rounded down to a half, in half units.  checkAndNudgePoints takes a
\* coordinate's truncation (`as i32`) and sample_grid its floor, and both are
\* those of the coordinate rounded down to a half.  NaN gives 0 under both
\* casts; a number of 2^22 or more stands far outside every image taken here
HalfUnits(r) ==
  IF r.k # "num" \/ r.m = 0 THEN 0
  ELSE LET e1 == r.e + 1
       IN  IF e1 >= 0 THEN r.s * 2 ^ 30
           ELSE IF -e1 >= 25 THEN (IF r.s = 1 THEN 0 ELSE -1)
           ELSE IF r.s = 1 THEN r.m \div 2 ^ (-e1)
           ELSE -((r.m + 2 ^ (-e1) - 1) \div 2 ^ (-e1))

\* `.floor() as u32` of a coordinate in half units: a negative floor gives 0
FloorAsU32(h) == IF h < 0 THEN 0 ELSE h \div 2

\* the points of row y before the transform:
\* points[x] = (x as f32 / 2.0) + 0.5, points[x + 1] = y as f32 + 0.5
GridRow(dimensionX, y) ==
  [i \in 1..(2 * dimensionX) |->
     IF i % 2 = 1 THEN F32Add(F32FromInt((i - 1) \div 2), F32Half)
     ELSE F32Add(F32FromInt(y), F32Half)]

\* the pixel sample_grid reads for point x of a checked row
PixelOf(points, x) == <<FloorAsU32(points[2 * x + 1]), FloorAsU32(points[2 * x + 2])>>

\* whether BitMatrix::get(x, y) indexes a word of the backing vector
WordExists(image, p) == p[2] * image.row_size + (p[1] \div 32) < Len(image.bits)

\* the second loop over a row: bits.set(x / 2, y) for every black pixel read
RECURSIVE SetSampled(_, _, _, _, _)
SetSampled(image, points, bits, x, y) ==
  IF 2 * x >= Len(points) THEN bits
  ELSE LET p == PixelOf(points, x)
       IN  SetSampled(image, points,
                      IF BitMatrixGet(image, p[1], p[2]) THEN BitMatrixSet(bits, x, y)
                      ELSE bits,
                      x + 1, y)

\* the loop of sample_grid over the rows from y: the row is transformed, then
\* checked and nudged, then read.  reads holds the pixels asked of the image
\* and rows the points of every row that passed the check
RECURSIVE SampleRows(_, _, _, _, _, _)
SampleRows(image, dimensionX, dimensionY, transform, y, acc) ==
  IF y >= dimensionY
  THEN [status |-> "Ok", bits |-> acc.bits, reads |-> acc.reads, rows |-> acc.rows]
  ELSE TheOne({
         IF c.status # "Ok"
         THEN [status |-> c.status, bits |-> acc.bits, reads |-> acc.reads,
               rows |-> acc.rows]
         ELSE TheOne({
                IF \E p \in pixels : ~WordExists(image, p)
                THEN [status |-> "panic", bits |-> acc.bits,
                      reads |-> acc.reads \cup pixels,
                      rows |-> Append(acc.rows, c.points)]
                ELSE SampleRows(image, dimensionX, dimensionY, transform, y + 1,
                       [bits |-> SetSampled(image, c.points, acc.bits, 0, y),
                        reads |-> acc.reads \cup pixels,
                        rows |-> Append(acc.rows, c.points)]) :
                pixels \in {{PixelOf(c.points, x) : x \in 0..(dimensionX - 1)}}}) :
         c \in {checkAndNudgePoints(
                  TheOne({[i \in 1..Len(points) |-> HalfUnits(points[i])] :
                          points \in {transform_points_single(
                                        transform, GridRow(dimensionX, y))}}),
                  image.width, image.height)}})

\* DefaultGridSampler::sample_grid
sample_grid(image, dimensionX, dimensionY, transform) ==
  IF dimensionX <= 0 \/ dimensionY <= 0
  THEN [status |-> "NotFound", bits |-> BitMatrixNew(1, 1), reads |-> {}, rows |-> <<>>]
  ELSE SampleRows(image, dimensionX, dimensionY, transform, 0,
                  [bits |-> BitMatrixNew(dimensionX, dimensionY), reads |-> {},
                   rows |-> <<>>])

(***************************************************************************)
(* pdf417 DetectionRXingResult (src/src/pdf417/decoder/detection_result.rs) *)
(*                                                                         *)
(* An Option is a sequence: <<>> for None, <<v>> for Some(v).  The columns *)
(* 0 .. barcodeColumnCount + 1 are at 1 .. barcodeColumnCount + 2 of the   *)
(* sequence detectionRXingResultColumns; a column is the sequence of its   *)
(* slots, each an Option of a codeword [bucket, rowNumber].  Codeword is   *)
(* Copy: `if let Some(codeword) = codewords[row]` and                      *)
(* `let mut codeword = codewords[row]` bind a copy of the slot.            *)
(***************************************************************************)
ADJUST_ROW_NUMBER_SKIP == 2

\* pdf_417_common::MAX_CODEWORDS_IN_BARCODE
MAX_CODEWORDS_IN_BARCODE == 928

\* Codeword::BARCODE_ROW_UNKNOWN
BARCODE_ROW_UNKNOWN == -1

\* Codeword::isValidRowNumber: the bucket is the row number's modulus
isValidRowNumber(codeword, rowNumber) ==
  rowNumber # BARCODE_ROW_UNKNOWN /\ codeword.bucket = (rowNumber % 3) * 3

\* Codeword::hasValidRowNumber
hasValidRowNumber(codeword) == isValidRowNumber(codeword, codeword.rowNumber)

\* Codeword::setRowNumber
setRowNumber(codeword, rowNumber) == [codeword EXCEPT !.rowNumber = rowNumber]

\* self.detectionRXingResultColumns[barcodeColumn]
ColumnAt(columns, barcodeColumn) == columns[barcodeColumn + 1]

\* column.getCodewords()[codewordsRow] of a column that is there
SlotAt(columns, barcodeColumn, codewordsRow) ==
  columns[barcodeColumn + 1][1][codewordsRow + 1]

\* DetectionRXingResult::adjustRowNumberIfValid: the count and the codeword
\* behind the &mut
adjustRowNumberIfValid(rowIndicatorRowNumber, invalidRowCounts, codeword) ==
  IF codeword = <<>> THEN [count |-> invalidRowCounts, codeword |-> codeword]
  ELSE IF ~hasValidRowNumber(codeword[1])
  THEN IF isValidRowNumber(codeword[1], rowIndicatorRowNumber)
       THEN [count |-> 0, codeword |-> <<setRowNumber(codeword[1], rowIndicatorRowNumber)>>]
       ELSE [count |-> invalidRowCounts + 1, codeword |-> codeword]
  ELSE [count |-> invalidRowCounts, codeword |-> codeword]

\* the body of the column loops of adjustRowNumbersFromLRI and
\* adjustRowNumbersFromRRI (both take &self): adjustRowNumberIfValid gets
\* `&mut Some(codeword)`, a temporary holding a copy, and
\* `codeword.hasValidRowNumber()` then asks the local copy, so the step
\* gives the new invalidRowCounts and whether the codeword is counted
IndicatorStep(columns, barcodeColumn, codewordsRow, rowIndicatorRowNumber, invalidRowCounts) ==
  IF ColumnAt(columns, barcodeColumn) # <<>>
       /\ SlotAt(columns, barcodeColumn, codewordsRow) # <<>>
  THEN LET codeword == SlotAt(columns, barcodeColumn, codewordsRow)[1]
           r == adjustRowNumberIfValid(rowIndicatorRowNumber, invalidRowCounts,
                                       <<codeword>>)
       IN  [count |-> r.count,
            unadjusted |-> IF hasValidRowNumber(codeword) THEN 0 ELSE 1]
  ELSE [count |-> invalidRowCounts, unadjusted |-> 0]

\* the column loop of one row: from barcodeColumn in steps of `step` while
\* the column is within 1 .. last and invalidRowCounts < ADJUST_ROW_NUMBER_SKIP
RECURSIVE IndicatorColumns(_, _, _, _, _, _, _, _)
IndicatorColumns(columns, codewordsRow, rowIndicatorRowNumber, barcodeColumn, step, last, invalidRowCounts, unadjustedCount) ==
  IF barcodeColumn > 0 /\ barcodeColumn <= last
       /\ invalidRowCounts < ADJUST_ROW_NUMBER_SKIP
  THEN LET s == IndicatorStep(columns, barcodeColumn, codewordsRow,
                              rowIndicatorRowNumber, invalidRowCounts)
       IN  IndicatorColumns(columns, codewordsRow, rowIndicatorRowNumber,
                            barcodeColumn + step, step, last, s.count,
                            unadjustedCount + s.unadjusted)
  ELSE unadjustedCount

\* the row loop of adjustRowNumbersFromLRI (indicator = 0, first = 1,
\* step = 1, last = barcodeColumnCount) and of adjustRowNumbersFromRRI
\* (indicator = first = last = barcodeColumnCount + 1, step = -1)
RECURSIVE IndicatorRows(_, _, _, _, _, _, _)
IndicatorRows(columns, indicator, first, step, last, codewordsRow, unadjustedCount) ==
  IF codewordsRow >= Len(ColumnAt(columns, indicator)[1])
  THEN unadjustedCount
  ELSE IF SlotAt(columns, indicator, codewordsRow) = <<>>
  THEN IndicatorRows(columns, indicator, first, step, last, codewordsRow + 1,
                     unadjustedCount)
  ELSE IndicatorRows(columns, indicator, first, step, last, codewordsRow + 1,
         IndicatorColumns(columns, codewordsRow,
           SlotAt(columns, indicator, codewordsRow)[1].rowNumber,
           first, step, last, 0, unadjustedCount))

\* DetectionRXingResult::adjustRowNumbersFromLRI
adjustRowNumbersFromLRI(columns, barcodeColumnCount) ==
  IF ColumnAt(columns, 0) = <<>> THEN 0
  ELSE IndicatorRows(columns, 0, 1, 1, barcodeColumnCount, 0, 0)

\* DetectionRXingResult::adjustRowNumbersFromRRI
adjustRowNumbersFromRRI(columns, barcodeColumnCount) ==
  IF ColumnAt(columns, barcodeColumnCount + 1) = <<>> THEN 0
  ELSE IndicatorRows(columns, barcodeColumnCount + 1, barcodeColumnCount + 1, -1,
                     barcodeColumnCount + 1, 0, 0)

\* DetectionRXingResult::adjustRowNumbersFromBothRI: where both indicators
\* have a codeword of the same row number, the codewords of the row get that
\* number through getCodewordsMut, and a codeword it is not valid for is removed
adjustRowNumbersFromBothRI(columns, barcodeColumnCount) ==
  IF ColumnAt(columns, 0) = <<>> \/ ColumnAt(columns, barcodeColumnCount + 1) = <<>>
  THEN columns
  ELSE [k \in 1..Len(columns) |->
          IF k = 1 \/ k = barcodeColumnCount + 2 \/ columns[k] = <<>> THEN columns[k]
          ELSE <<[row \in 1..Len(columns[k][1]) |->
                    LET lri == SlotAt(columns, 0, row - 1)
                        rri == SlotAt(columns, barcodeColumnCount + 1, row - 1)
                        slot == columns[k][1][row]
                    IN  IF row <= Len(ColumnAt(columns, 0)[1]) /\ lri # <<>>
                             /\ rri # <<>> /\ lri[1].rowNumber = rri[1].rowNumber
                             /\ slot # <<>>
                        THEN IF isValidRowNumber(slot[1], lri[1].rowNumber)
                             THEN <<setRowNumber(slot[1], lri[1].rowNumber)>>
                             ELSE <<>>
                        ELSE slot]>>]

\* DetectionRXingResult::adjustRowNumbersByRow
adjustRowNumbersByRow(columns, barcodeColumnCount) ==
  TheOne({[count |-> adjustRowNumbersFromLRI(both, barcodeColumnCount)
                       + adjustRowNumbersFromRRI(both, barcodeColumnCount),
           columns |-> both] :
            both \in {adjustRowNumbersFromBothRI(columns, barcodeColumnCount)}})

\* the slot at codewordsRow + d of a column, None where the code leaves
\* otherCodewords unset
NeighbourSlot(codewords, codewordsRow, d) ==
  IF codewordsRow + d >= 0 /\ codewordsRow + d < Len(codewords)
  THEN codewords[codewordsRow + d + 1] ELSE <<>>

\* otherCodewords[0 .. 13] of adjustRowNumbersWithCodewords
OtherCodewords(codewords, previousColumnCodewords, nextColumnCodewords, codewordsRow) ==
  <<NeighbourSlot(codewords, codewordsRow, -1),
    NeighbourSlot(codewords, codewordsRow, 1),
    NeighbourSlot(previousColumnCodewords, codewordsRow, 0),
    NeighbourSlot(nextColumnCodewords, codewordsRow, 0),
    NeighbourSlot(previousColumnCodewords, codewordsRow, -1),
    NeighbourSlot(nextColumnCodewords, codewordsRow, -1),
    NeighbourSlot(previousColumnCodewords, codewordsRow, 1),
    NeighbourSlot(nextColumnCodewords, codewordsRow, 1),
    NeighbourSlot(codewords, codewordsRow, -2),
    NeighbourSlot(codewords, codewordsRow, 2),
    NeighbourSlot(previousColumnCodewords, codewordsRow, -2),
    NeighbourSlot(nextColumnCodewords, codewordsRow, -2),
    NeighbourSlot(previousColumnCodewords, codewordsRow, 2),
    NeighbourSlot(nextColumnCodewords, codewordsRow, 2)>>

\* DetectionRXingResult::adjustRowNumber: whether otherCodeword gives its
\* row number to codeword
adjustRowNumber(codeword, otherCodeword) ==
  /\ otherCodeword # <<>>
  /\ hasValidRowNumber(otherCodeword[1])
  /\ otherCodeword[1].bucket = codeword.bucket

\* DetectionRXingResult::adjustRowNumbersWithCodewords.  The codeword adjusted
\* is the local `let mut codeword = codewords[codewordsRow]`.  The call
\* panics when the column before is None (unwrap) and when the column has a
\* single slot (codewords.len() - 2 underflows, or with wrapping arithmetic
\* codewords[codewordsRow + 2] is out of range)
adjustRowNumbersWithCodewords(columns, barcodeColumn, codewordsRow) ==
  LET codewords == ColumnAt(columns, barcodeColumn)[1]
      codeword == codewords[codewordsRow + 1][1]
  IN  IF ColumnAt(columns, barcodeColumn - 1) = <<>> \/ Len(codewords) < 2
      THEN [status |-> "panic", codeword |-> codeword]
      ELSE LET previousColumnCodewords == ColumnAt(columns, barcodeColumn - 1)[1]
               nextColumnCodewords ==
                 IF ColumnAt(columns, barcodeColumn + 1) # <<>>
                 THEN ColumnAt(columns, barcodeColumn + 1)[1]
                 ELSE previousColumnCodewords
               otherCodewords == OtherCodewords(codewords, previousColumnCodewords,
                                                nextColumnCodewords, codewordsRow)
               givers == {i \in 1..14 : adjustRowNumber(codeword, otherCodewords[i])}
           IN  [status |-> "Ok",
                codeword |->
                  IF givers = {} THEN codeword
                  ELSE setRowNumber(codeword,
                         otherCodewords[CHOOSE i \in givers :
                                          \A j \in givers : i <= j][1].rowNumber)]

\* the loops of adjustRowNumbers over the slots in column order from the
\* k-th slot: adjustRowNumbersWithCodewords (&self) for every codeword
\* without a valid row number; its result stays in the callee's local
RECURSIVE WithCodewordsLoop(_, _, _, _)
WithCodewordsLoop(columns, barcodeColumnCount, height, k) ==
  IF k >= barcodeColumnCount * height THEN "Ok"
  ELSE LET barcodeColumn == 1 + k \div height
           codewordsRow == k % height
       IN  IF ColumnAt(columns, barcodeColumn) = <<>>
                \/ SlotAt(columns, barcodeColumn, codewordsRow) = <<>>
                \/ hasValidRowNumber(SlotAt(columns, barcodeColumn, codewordsRow)[1])
           THEN WithCodewordsLoop(columns, barcodeColumnCount, height, k + 1)
           ELSE IF adjustRowNumbersWithCodewords(columns, barcodeColumn,
                                                 codewordsRow).status = "panic"
           THEN "panic"
           ELSE WithCodewordsLoop(columns, barcodeColumnCount, height, k + 1)

\* DetectionRXingResult::adjustRowNumbers
adjustRowNumbers(columns, barcodeColumnCount, height) ==
  TheOne({IF r.count = 0 THEN [status |-> "Ok", count |-> 0, columns |-> r.columns]
          ELSE [status |-> WithCodewordsLoop(r.columns, barcodeColumnCount, height, 0),
                count |-> r.count, columns |-> r.columns] :
            r \in {adjustRowNumbersByRow(columns, barcodeColumnCount)}})

\* the loop condition of getDetectionRXingResultColumns with no test
\* against the count before
KeepsAdjustingWhilePositive(unadjustedCodewordCount, previousUnadjustedCount) ==
  unadjustedCodewordCount > 0
\* the loop condition of getDetectionRXingResultColumns: the loop breaks on
\* its negation
KeepsAdjusting(unadjustedCodewordCount, previousUnadjustedCount) ==
  unadjustedCodewordCount > 0 /\ unadjustedCodewordCount < previousUnadjustedCount

(***************************************************************************)
(* VINResultParser.  A text is the sequence of its chars (code points); a  *)
(* Result is <<>> for Err and <<v>> for Ok(v), an Option likewise.         *)
(***************************************************************************)
IOQ == {73, 79, 81}
AZ09 == [class |-> (65..90) \cup (48..57), times |-> 17]

\* the chars below U+0100 that str::trim takes for white space
WhiteSpace == {9, 10, 11, 12, 13, 32, 133, 160}

\* str::trim
RECURSIVE trim_start(_)
trim_start(s) ==
  IF s # <<>> /\ Head(s) \in WhiteSpace THEN trim_start(Tail(s)) ELSE s
RECURSIVE trim_end(_)
trim_end(s) ==
  IF s # <<>> /\ s[Len(s)] \in WhiteSpace THEN trim_end(SubSeq(s, 1, Len(s) - 1)) ELSE s
trim(s) == trim_end(trim_start(s))

\* ioq_matcher.replace_all(text, "")
ReplaceAllIOQ(s) == SelectSeq(s, LAMBDA c : c \notin IOQ)

\* az09_matcher.find(text).is_some(): the pattern has no anchors, the match
\* may start anywhere in the text
Az09Find(s) ==
  \E start \in 1..(Len(s) - AZ09.times + 1) :
    \A k \in 0..(AZ09.times - 1) : s[start + k] \in AZ09.class

\* &s[from..to]: the chars between two byte offsets; <<>> when an offset is
\* beyond the text or inside a char (the slice panics), else <<slice>>
StrSlice(s, from, to) ==
  LET Offsets(n) == {k \in 0..Len(s) : StrLen(SubSeq(s, 1, k)) = n}
  IN  IF from > to \/ Offsets(from) = {} \/ Offsets(to) = {} THEN <<>>
      ELSE << SubSeq(s, (CHOOSE k \in Offsets(from) : TRUE) + 1,
                        CHOOSE k \in Offsets(to) : TRUE) >>

vin_char_value(c) ==
  IF c \in 65..73 THEN <<(c - 65) + 1>>
  ELSE IF c \in 74..82 THEN <<(c - 74) + 1>>
  ELSE IF c \in 83..90 THEN <<(c - 83) + 2>>
  ELSE IF c \in 48..57 THEN <<c - 48>>
  ELSE <<>>

\* a weight for every position, none refused
vin_position_weight_any(position) ==
  IF position \in 1..7 THEN <<9 - position>>
  ELSE IF position = 8 THEN <<10>>
  ELSE IF position = 9 THEN <<0>>
  ELSE IF position \in 10..17 THEN <<19 - position>>
  ELSE <<0>>
vin_position_weight(position) ==
  IF position \in 1..7 THEN <<9 - position>>
  ELSE IF position = 8 THEN <<10>>
  ELSE IF position = 9 THEN <<0>>
  ELSE IF position \in 10..17 THEN <<19 - position>>
  ELSE <<>>

check_char(remainder) ==
  IF remainder \in 0..9 THEN <<48 + remainder>>
  ELSE IF remainder = 10 THEN <<88>>
  ELSE <<>>

model_year(c) ==
  IF c \in 69..72 THEN <<(c - 69) + 1984>>
  ELSE IF c \in 74..78 THEN <<(c - 74) + 1988>>
  ELSE IF c = 80 THEN <<1993>>
  ELSE IF c \in 82..84 THEN <<(c - 82) + 1994>>
  ELSE IF c \in 86..89 THEN <<(c - 86) + 1997>>
  ELSE IF c \in 49..57 THEN <<(c - 49) + 2001>>
  ELSE IF c \in 65..68 THEN <<(c - 65) + 2010>>
  ELSE <<>>

\* the code of the country of a manufacturer identifier of two chars or
\* more
country_code(wmi) ==
  LET c1 == wmi[1]
      c2 == wmi[2]
  IN  IF c1 \in {49, 52, 53} THEN <<"US">>
      ELSE IF c1 = 50 THEN <<"CA">>
      ELSE IF c1 = 51 /\ c2 \in 65..87 THEN <<"MX">>
      ELSE IF c1 = 57 /\ (c2 \in 65..69 \/ c2 \in 51..57) THEN <<"BR">>
      ELSE IF c1 = 74 /\ c2 \in 65..84 THEN <<"JP">>
      ELSE IF c1 = 75 /\ c2 \in 76..82 THEN <<"KO">>
      ELSE IF c1 = 76 THEN <<"CN">>
      ELSE IF c1 = 77 /\ c2 \in 65..69 THEN <<"IN">>
      ELSE IF c1 = 83 /\ c2 \in 65..77 THEN <<"UK">>
      ELSE IF c1 = 83 /\ c2 \in 78..84 THEN <<"DE">>
      ELSE IF c1 = 86 /\ c2 \in 70..82 THEN <<"FR">>
      ELSE IF c1 = 86 /\ c2 \in 83..87 THEN <<"ES">>
      ELSE IF c1 = 87 THEN <<"DE">>
      ELSE IF c1 = 88 /\ (c2 = 48 \/ c2 \in 51..57) THEN <<"RU">>
      ELSE IF c1 = 90 /\ c2 \in 65..82 THEN <<"IT">>
      ELSE <<>>

\* the loop of check_checksum from index i on: i runs over the bytes of
\* the text, the char is taken by its index among the chars.  The weight
\* is asked for first, then the char, then its value
RECURSIVE ChecksumLoop(_, _, _)
ChecksumLoop(vin, i, sum) ==
  IF i >= StrLen(vin) THEN [status |-> "Ok", sum |-> sum]
  ELSE IF vin_position_weight(i + 1) = <<>> THEN [status |-> "Err", sum |-> sum]
  ELSE IF CharsNth(vin, i) = <<>> THEN [status |-> "panic", sum |-> sum]
  ELSE IF vin_char_value(CharsNth(vin, i)[1]) = <<>> THEN [status |-> "Err", sum |-> sum]
  ELSE ChecksumLoop(vin, i + 1,
                    sum + vin_position_weight(i + 1)[1]
                            * vin_char_value(CharsNth(vin, i)[1])[1])

\* status "panic", "Err" or "Ok"; ok is the boolean of an Ok
check_checksum(vin) ==
  LET loop == ChecksumLoop(vin, 0, 0)
  IN  IF loop.status # "Ok" THEN [status |-> loop.status, ok |-> FALSE]
      ELSE IF CharsNth(vin, 8) = <<>> THEN [status |-> "panic", ok |-> FALSE]
      ELSE IF check_char(AsU8(loop.sum % 11)) = <<>> THEN [status |-> "Err", ok |-> FALSE]
      ELSE [status |-> "Ok",
            ok |-> CharsNth(vin, 8)[1] = check_char(AsU8(loop.sum % 11))[1]]

VinNone == [status |-> "None", result |-> <<>>]
VinPanic == [status |-> "panic", result |-> <<>>]

\* VINResultParser::parse of a result with this format and text
parse(format, text) ==
  LET raw_text_res == trim(text)
      raw_text == ReplaceAllIOQ(raw_text_res)
      check_cs == check_checksum(raw_text)
      wmi == StrSlice(raw_text, 0, 3)
      year == model_year(IF CharsNth(raw_text, 9) = <<>> THEN 95
                         ELSE CharsNth(raw_text, 9)[1])
      vds == StrSlice(raw_text, 3, 9)
      vis == StrSlice(raw_text, 9, 17)
      attributes == StrSlice(raw_text, 3, 8)
      plant == CharsNth(raw_text, 10)
      serial == StrSlice(raw_text, 11, StrLen(raw_text))
  IN  IF format # "CODE_39" THEN VinNone
      ELSE IF ~Az09Find(raw_text) THEN VinNone
      ELSE IF check_cs.status = "panic" THEN VinPanic
      ELSE IF ~(check_cs.status = "Ok" /\ check_cs.ok) THEN VinNone
      ELSE IF wmi = <<>> THEN VinPanic
      ELSE IF Len(wmi[1]) < 2 THEN VinPanic
      ELSE IF year = <<>> THEN VinNone
      ELSE IF vds = <<>> \/ vis = <<>> \/ attributes = <<>> \/ plant = <<>>
              \/ serial = <<>> THEN VinPanic
      ELSE [status |-> "Some",
            result |-> [vin |-> raw_text, wmi |-> wmi[1], vds |-> vds[1],
                        vis |-> vis[1],
                        country_code |-> IF country_code(wmi[1]) = <<>> THEN ""
                                         ELSE country_code(wmi[1])[1],
                        attributes |-> attributes[1], model_year |-> year[1],
                        plant |-> plant[1], serial |-> serial[1]]]

(***************************************************************************)
(* The specifications: one per component.  A component that a              *)
(* specification does not exercise stays in its idle state.                *)
(***************************************************************************)
BsIdle == BitSourceNew(<<>>)

GsIdle == [points |-> <<>>, orig |-> <<>>, status |-> "building",
           image |-> BitMatrixNew(1, 1), qp |-> <<0, 0, 1, 0, 1, 1, 0, 1>>,
           dimensionX |-> 0, dimensionY |-> 0, bits |-> BitMatrixNew(1, 1),
           reads |-> {}, rows |-> <<>>]

BaIdle == [a |-> BitArrayNew, orig |-> BitArrayNew, revs |-> 0, appends |-> 0,
           status |-> "idle", x |-> <<>>]

BmIdle == [m |-> BitMatrixNew(1, 1), a |-> BitMatrixNew(1, 1),
           b |-> BitMatrixNew(1, 1), phase |-> "idle", n90 |-> 0,
           did180 |-> FALSE, rect |-> <<>>, last |-> "none", ops |-> 0,
           deg |-> 0]

NoQuery == QueryAt([bytes |-> <<>>, fnc1 |-> -1], 0)

MeIdle == [s |-> <<>>, priority |-> "iso-8859-1", fnc1 |-> -1, op |-> "idle",
           status |-> "idle", bytes |-> <<>>, set |-> EncoderSetPanic, q |-> NoQuery]

NoBlackPoint == [status |-> "none", value |-> 0]

GhIdle == [img |-> Image(1, 1, 0, 0), checks |-> TRUE, op |-> "idle", status |-> "idle",
           m |-> BitMatrixNew(1, 1), row |-> BitArrayNew, y |-> 0,
           buckets |-> [k \in 0..(LUMINANCE_BUCKETS - 1) |-> 0],
           blackPoint |-> NoBlackPoint, black_points |-> <<>>, window |-> {},
           reads |-> {}]

SbIdle == [b |-> ECIStringBuilderNew, calls |-> 0, text |-> <<>>, onlyText |-> TRUE,
           op |-> "idle"]

PtIdle == [q |-> <<0, 0, 1, 0, 1, 1, 0, 1>>, qp |-> <<0, 0, 1, 0, 1, 1, 0, 1>>,
           phase |-> "idle", t |-> <<>>, out |-> <<>>]

DrIdle == [pc |-> "idle", barcodeColumnCount |-> 1, height |-> 1,
           columns |-> <<<<>>, <<>>, <<>>>>, before |-> <<<<>>, <<>>, <<>>>>,
           unadjustedCodewordCount |-> 0, previousUnadjustedCount |-> 0,
           passes |-> 0, status |-> "Ok"]

VpIdle == [op |-> "idle", format |-> "CODE_39", text |-> <<>>, out |-> VinNone]

\* ---- BitSource: a buffer is chosen, then bits are read from it
InitBitSource ==
  /\ bs \in {BitSourceNew(b) : b \in ByteBuffers}
  /\ cs = CsIdle
  /\ gs = GsIdle
  /\ ba = BaIdle
  /\ bm = BmIdle
  /\ me = MeIdle
  /\ gh = GhIdle
  /\ sb = SbIdle
  /\ pt = PtIdle
  /\ dr = DrIdle
  /\ vp = VpIdle

ReadBits ==
  /\ \E n \in 0..MaxNumBits : bs' = readBits(bs, n)
  /\ UNCHANGED <<cs, gs, ba, bm, me, gh, sb, pt, dr, vp>>

NextBitSource == ReadBits

SpecBitSource == InitBitSource /\ [][NextBitSource]_vars

\* ---- CharacterSetECI: values are looked up
InitCharset ==
  /\ cs = CsIdle
  /\ bs = BsIdle
  /\ gs = GsIdle
  /\ ba = BaIdle
  /\ bm = BmIdle
  /\ me = MeIdle
  /\ gh = GhIdle
  /\ sb = SbIdle
  /\ pt = PtIdle
  /\ dr = DrIdle
  /\ vp = VpIdle

LookupECI ==
  /\ \E v \in 0..MaxECIProbe : cs' = LookupAndGetValue(v)
  /\ UNCHANGED <<bs, gs, ba, bm, me, gh, sb, pt, dr, vp>>

NextCharset == LookupECI

SpecCharset == InitCharset /\ [][NextCharset]_vars

\* ---- GridSampler: a caller fills a point list, then has it checked
InitGridSampler ==
  /\ gs = GsIdle
  /\ bs = BsIdle
  /\ cs = CsIdle
  /\ ba = BaIdle
  /\ bm = BmIdle
  /\ me = MeIdle
  /\ gh = GhIdle
  /\ sb = SbIdle
  /\ pt = PtIdle
  /\ dr = DrIdle
  /\ vp = VpIdle

AddPoint ==
  /\ gs.status = "building"
  /\ Len(gs.points) < 2 * MaxPoints
  /\ \E x \in XCoords, y \in YCoords :
       gs' = [gs EXCEPT !.points = gs.points \o <<x, y>>,
                        !.orig = gs.orig \o <<x, y>>]
  /\ UNCHANGED <<bs, cs, ba, bm, me, gh, sb, pt, dr, vp>>

CheckAndNudge ==
  /\ gs.status = "building"
  /\ LET r == checkAndNudgePoints(gs.points, ImageWidth, ImageHeight)
     IN  gs' = [gs EXCEPT !.points = r.points, !.status = r.status]
  /\ UNCHANGED <<bs, cs, ba, bm, me, gh, sb, pt, dr, vp>>

NextGridSampler == AddPoint \/ CheckAndNudge

SpecGridSampler == InitGridSampler /\ [][NextGridSampler]_vars

\* ---- BitArray: an array is made, then filled, extended and reversed in any
\* order, and last xored with another array
\* the numbers of appended bits, the bit positions set
MaxAppends == 1
AppendLengths == {3, 32}
ProbeBits(size) == {0, 31, 32, size - 1} \cap (0..(size - 1))

\* the arrays handed to appendBitArray
AppendedArrays == {BitArraySet(with_size(1), 0), with_size(2), BitArraySet(with_size(33), 32)}

\* the array a with its first and its last bit set
EndsSet(a) ==
  [a EXCEPT !.bits = [k \in 1..Len(a.bits) |->
     OrWord(a.bits[k],
            {b \in WordBits : (32 * (k - 1) + b) \in ({0, a.size - 1} \cap (0..(a.size - 1)))})]]

\* the arrays handed to xor for an array of n bits: arrays of n bits made by
\* with_size and by appendBitArray on an empty array, and an array of n + 1 bits
XorOperands(n) ==
  {EndsSet(with_size(n)), appendBitArray(BitArrayNew, EndsSet(with_size(n))),
   with_size(n + 1)}

InitBitArray ==
  /\ \E n \in 0..MaxArrayBits :
       ba = [a |-> with_size(n), orig |-> with_size(n), revs |-> 0, appends |-> 0,
             status |-> "ok", x |-> <<>>]
  /\ bs = BsIdle
  /\ cs = CsIdle
  /\ gs = GsIdle
  /\ bm = BmIdle
  /\ me = MeIdle
  /\ gh = GhIdle
  /\ sb = SbIdle
  /\ pt = PtIdle
  /\ dr = DrIdle
  /\ vp = VpIdle

\* the array is a from now on, and no reverse has been made on it
Extended(a) == [ba EXCEPT !.a = a, !.orig = a, !.revs = 0, !.appends = @ + 1]

BaSet ==
  /\ ba.revs = 0
  /\ ba.x = <<>>
  /\ \E i \in ProbeBits(ba.a.size) :
       ba' = [ba EXCEPT !.a = BitArraySet(ba.a, i), !.orig = BitArraySet(ba.a, i)]
  /\ UNCHANGED <<bs, cs, gs, bm, me, gh, sb, pt, dr, vp>>

BaAppendBit ==
  /\ ba.status = "ok"
  /\ ba.x = <<>>
  /\ ba.appends < MaxAppends
  /\ \E bit \in BOOLEAN : ba' = Extended(appendBit(ba.a, bit))
  /\ UNCHANGED <<bs, cs, gs, bm, me, gh, sb, pt, dr, vp>>

BaAppendBits ==
  /\ ba.status = "ok"
  /\ ba.x = <<>>
  /\ ba.appends < MaxAppends
  /\ \E n \in AppendLengths : ba' = Extended(appendBits(ba.a, WordBits, n))
  /\ UNCHANGED <<bs, cs, gs, bm, me, gh, sb, pt, dr, vp>>

BaAppendBitArray ==
  /\ ba.status = "ok"
  /\ ba.x = <<>>
  /\ ba.appends < MaxAppends
  /\ \E other \in AppendedArrays : ba' = Extended(appendBitArray(ba.a, other))
  /\ UNCHANGED <<bs, cs, gs, bm, me, gh, sb, pt, dr, vp>>

BaReverse ==
  /\ ba.revs < 2
  /\ ba.status = "ok"
  /\ ba.x = <<>>
  /\ LET r == reverse(ba.a)
     IN  ba' = [ba EXCEPT !.a = r.a, !.revs = @ + 1, !.status = r.status]
  /\ UNCHANGED <<bs, cs, gs, bm, me, gh, sb, pt, dr, vp>>

\* the array is xored once with another; pre is the array before the call
BaXor ==
  /\ ba.status = "ok"
  /\ ba.x = <<>>
  /\ \E other \in XorOperands(ba.a.size) :
       LET r == BitArrayXor(ba.a, other)
       IN  ba' = [ba EXCEPT !.a = r.a, !.orig = r.a, !.revs = 0,
                            !.x = <<[pre |-> ba.a, other |-> other, status |-> r.status]>>]
  /\ UNCHANGED <<bs, cs, gs, bm, me, gh, sb, pt, dr, vp>>

NextBitArray ==
  \/ BaSet \/ BaAppendBit \/ BaAppendBits \/ BaAppendBitArray \/ BaReverse \/ BaXor

SpecBitArray == InitBitArray /\ [][NextBitArray]_vars

\* ---- BitMatrix: a matrix is made and changed through its public operations;
\* then clones of it are rotated, or its enclosing rectangle is asked for
Widths == {1, 5, 32, MaxWidth}
ColumnProbes(m) == {0, m.width - 1}
RowProbes(m) == {0, m.height - 1}

\* the regions handed to setRegion: the whole matrix, its last column, a region
\* one too wide and an empty one
Regions(m) ==
  {<<0, 0, m.width, m.height>>, <<m.width - 1, 0, 1, m.height>>,
   <<0, 0, m.width + 1, 1>>, <<0, 0, 0, 1>>}

\* the rows handed to setRow: the rows read from the matrix itself, and a row
\* of 32 * row_size bits with its last bit set
FullWordRow(m) == BitArraySet(with_size(32 * m.row_size), 32 * m.row_size - 1)
Rows(m) == {getRow(m, y, with_size(m.width)) : y \in RowProbes(m)} \cup {FullWordRow(m)}

\* the masks handed to xor: one bit set, and a matrix one column wider
Masks(m) ==
  {BitMatrixSet(BitMatrixNew(m.width, m.height), m.width - 1, 0),
   BitMatrixNew(m.width + 1, m.height)}

Degrees == {0, 90, 180, 270, 45}

\* the degrees a clone is rotated by: those, a full turn and more, and others
\* that are no multiple of 90
CloneDegrees == Degrees \cup {360, 450, 540, 630, 405, 1}

\* the number of operations that change a matrix before it is cloned or queried
MaxOps == 3

\* the matrix m with its two clones
Built(m, last, ops) ==
  [m |-> m, a |-> m, b |-> m, phase |-> "build", n90 |-> 0, did180 |-> FALSE,
   rect |-> <<>>, last |-> last, ops |-> ops, deg |-> 0]

InitBitMatrix ==
  /\ \E w \in Widths, h \in 1..MaxHeight : bm = Built(BitMatrixNew(w, h), "Ok", 0)
  /\ bs = BsIdle
  /\ cs = CsIdle
  /\ gs = GsIdle
  /\ ba = BaIdle
  /\ me = MeIdle
  /\ gh = GhIdle
  /\ sb = SbIdle
  /\ pt = PtIdle
  /\ dr = DrIdle
  /\ vp = VpIdle

BmSet ==
  /\ bm.phase = "build"
  /\ bm.ops < MaxOps
  /\ \E x \in ColumnProbes(bm.m), y \in RowProbes(bm.m) :
       bm' = Built(BitMatrixSet(bm.m, x, y), "Ok", bm.ops + 1)
  /\ UNCHANGED <<bs, cs, gs, ba, me, gh, sb, pt, dr, vp>>

BmUnset ==
  /\ bm.phase = "build"
  /\ bm.ops < MaxOps
  /\ \E x \in ColumnProbes(bm.m), y \in RowProbes(bm.m) :
       bm' = Built(unset(bm.m, x, y), "Ok", bm.ops + 1)
  /\ UNCHANGED <<bs, cs, gs, ba, me, gh, sb, pt, dr, vp>>

BmFlipCoords ==
  /\ bm.phase = "build"
  /\ bm.ops < MaxOps
  /\ \E x \in ColumnProbes(bm.m), y \in RowProbes(bm.m) :
       bm' = Built(flip_coords(bm.m, x, y), "Ok", bm.ops + 1)
  /\ UNCHANGED <<bs, cs, gs, ba, me, gh, sb, pt, dr, vp>>

BmFlipSelf ==
  /\ bm.phase = "build"
  /\ bm.ops < MaxOps
  /\ bm' = Built(flip_self(bm.m), "Ok", bm.ops + 1)
  /\ UNCHANGED <<bs, cs, gs, ba, me, gh, sb, pt, dr, vp>>

BmSetRegion ==
  /\ bm.phase = "build"
  /\ bm.ops < MaxOps
  /\ \E r \in Regions(bm.m) :
       LET res == setRegion(bm.m, r[1], r[2], r[3], r[4])
       IN  bm' = Built(res.m, res.status, bm.ops + 1)
  /\ UNCHANGED <<bs, cs, gs, ba, me, gh, sb, pt, dr, vp>>

BmSetRow ==
  /\ bm.phase = "build"
  /\ bm.ops < MaxOps
  /\ \E y \in RowProbes(bm.m), row \in Rows(bm.m) :
       bm' = Built(setRow(bm.m, y, row), "Ok", bm.ops + 1)
  /\ UNCHANGED <<bs, cs, gs, ba, me, gh, sb, pt, dr, vp>>

BmXor ==
  /\ bm.phase = "build"
  /\ bm.ops < MaxOps
  /\ \E mask \in Masks(bm.m) :
       LET res == BitMatrixXor(bm.m, mask)
       IN  bm' = Built(res.m, res.status, bm.ops + 1)
  /\ UNCHANGED <<bs, cs, gs, ba, me, gh, sb, pt, dr, vp>>

BmRotate ==
  /\ bm.phase = "build"
  /\ bm.ops < MaxOps
  /\ \E d \in Degrees :
       LET res == rotate(bm.m, d)
       IN  bm' = Built(res.m, res.status, bm.ops + 1)
  /\ UNCHANGED <<bs, cs, gs, ba, me, gh, sb, pt, dr, vp>>

\* the clone a is rotated once by 180 degrees
BmRotate180Clone ==
  /\ bm.phase \in {"build", "rotate"}
  /\ ~bm.did180
  /\ LET res == rotate(bm.a, 180)
     IN  bm' = [bm EXCEPT !.a = res.m, !.did180 = TRUE, !.phase = "rotate",
                          !.last = res.status]
  /\ UNCHANGED <<bs, cs, gs, ba, me, gh, sb, pt, dr, vp>>

\* the clone b is rotated by 90 degrees, up to four times
BmRotate90Clone ==
  /\ bm.phase \in {"build", "rotate"}
  /\ bm.n90 < 4
  /\ LET res == rotate(bm.b, 90)
     IN  bm' = [bm EXCEPT !.b = res.m, !.n90 = @ + 1, !.phase = "rotate",
                          !.last = res.status]
  /\ UNCHANGED <<bs, cs, gs, ba, me, gh, sb, pt, dr, vp>>

BmEnclosingRectangle ==
  /\ bm.phase = "build"
  /\ bm' = [bm EXCEPT !.rect = getEnclosingRectangle(bm.m), !.phase = "queried"]
  /\ UNCHANGED <<bs, cs, gs, ba, me, gh, sb, pt, dr, vp>>

\* the clone a is rotated once by any number of degrees
BmRotateClone ==
  /\ bm.phase = "build"
  /\ \E d \in CloneDegrees :
       LET res == rotate(bm.a, d)
       IN  bm' = [bm EXCEPT !.a = res.m, !.phase = "rotated", !.last = res.status,
                            !.deg = d]
  /\ UNCHANGED <<bs, cs, gs, ba, me, gh, sb, pt, dr, vp>>

NextBitMatrix ==
  \/ BmSet \/ BmUnset \/ BmFlipCoords \/ BmFlipSelf \/ BmSetRegion \/ BmSetRow
  \/ BmXor \/ BmRotate \/ BmRotate180Clone \/ BmRotate90Clone
  \/ BmEnclosingRectangle \/ BmRotateClone

SpecBitMatrix == InitBitMatrix /\ [][NextBitMatrix]_vars

\* ---- MinimalECIInput: for a string, a priority charset and an fnc1 char,
\* either MinimalECIInput::new is called, or an ECIEncoderSet is made and
\* handed to encodeMinimally
RECURSIVE StringsUpTo(_)
StringsUpTo(n) ==
  IF n = 0 THEN {<<>>}
  ELSE StringsUpTo(n - 1)
         \cup {Append(t, c) : t \in {u \in StringsUpTo(n - 1) : Len(u) = n - 1},
                              c \in Alphabet}

InitECI ==
  /\ \E str \in StringsUpTo(MaxChars), p \in Priorities, f \in Fnc1Values :
       me = [s |-> str, priority |-> p, fnc1 |-> f, op |-> "none",
             status |-> "input", bytes |-> <<>>, set |-> EncoderSetPanic,
             q |-> NoQuery]
  /\ bs = BsIdle
  /\ cs = CsIdle
  /\ gs = GsIdle
  /\ ba = BaIdle
  /\ bm = BmIdle
  /\ gh = GhIdle
  /\ sb = SbIdle
  /\ pt = PtIdle
  /\ dr = DrIdle
  /\ vp = VpIdle

MeNew ==
  /\ me.op = "none"
  /\ LET r == MinimalECIInputNew(me.s, me.priority, me.fnc1)
     IN  me' = [me EXCEPT !.op = "new", !.status = r.status, !.bytes = r.bytes]
  /\ UNCHANGED <<bs, cs, gs, ba, bm, gh, sb, pt, dr, vp>>

MeEncoderSet ==
  /\ me.op = "none"
  /\ LET r == ECIEncoderSetNew(me.s, me.priority, me.fnc1)
     IN  me' = [me EXCEPT !.op = "encoder_set", !.status = r.status, !.set = r]
  /\ UNCHANGED <<bs, cs, gs, ba, bm, gh, sb, pt, dr, vp>>

MeEncodeMinimally ==
  /\ me.op = "encoder_set"
  /\ me.status = "ok"
  /\ LET r == encodeMinimally(me.s, me.set, me.fnc1)
     IN  me' = [me EXCEPT !.op = "encodeMinimally", !.status = r.status,
                          !.bytes = r.bytes]
  /\ UNCHANGED <<bs, cs, gs, ba, bm, gh, sb, pt, dr, vp>>

\* the input made by MinimalECIInput::new is asked about one index (the index
\* length() is out of range)
MeQuery ==
  /\ me.op = "new"
  /\ me.status = "ok"
  /\ \E index \in 0..Len(me.bytes) :
       me' = [me EXCEPT !.op = "query",
                        !.q = QueryAt([bytes |-> me.bytes, fnc1 |-> me.fnc1], index)]
  /\ UNCHANGED <<bs, cs, gs, ba, bm, gh, sb, pt, dr, vp>>

NextECI == MeNew \/ MeEncoderSet \/ MeEncodeMinimally \/ MeQuery

SpecECI == InitECI /\ [][NextECI]_vars

\* ---- GlobalHistogramBinarizer: a binarizer is made over an image, in a build
\* with or without overflow checks, and asked once for its black matrix or
\* for one black row
ImageWidths == {1, 2, 3, MaxImageWidth}
ImageHeights == {1, MaxImageHeight}
Luminances == 0..255

InitBinarizer ==
  /\ \E w \in ImageWidths, h \in ImageHeights, la \in Luminances, checks \in BOOLEAN :
       \E lb \in {la, 0, 255} :
         gh = [GhIdle EXCEPT !.img = Image(w, h, la, lb), !.checks = checks,
                             !.op = "none", !.status = "made", !.m = BitMatrixNew(w, h)]
  /\ bs = BsIdle
  /\ cs = CsIdle
  /\ gs = GsIdle
  /\ ba = BaIdle
  /\ bm = BmIdle
  /\ me = MeIdle
  /\ sb = SbIdle
  /\ pt = PtIdle
  /\ dr = DrIdle
  /\ vp = VpIdle

GhGetBlackMatrix ==
  /\ gh.op = "none"
  /\ LET r == getBlackMatrix(gh.img, gh.checks)
     IN  gh' = [gh EXCEPT !.op = "getBlackMatrix", !.status = r.status, !.m = r.m,
                          !.buckets = MatrixBuckets(gh.img), !.blackPoint = r.blackPoint]
  /\ UNCHANGED <<bs, cs, gs, ba, bm, me, sb, pt, dr, vp>>

GhGetBlackRow ==
  /\ gh.op = "none"
  /\ \E y \in {0, gh.img.height - 1},
        row \in {BitArrayNew, BitArraySet(with_size(gh.img.width), 0)} :
       LET r == getBlackRow(gh.img, y, row, gh.checks)
       IN  gh' = [gh EXCEPT !.op = "getBlackRow", !.status = r.status, !.row = r.row,
                            !.y = y, !.buckets = RowBuckets(gh.img, y),
                            !.blackPoint = r.blackPoint]
  /\ UNCHANGED <<bs, cs, gs, ba, bm, me, sb, pt, dr, vp>>

NextBinarizer == GhGetBlackMatrix \/ GhGetBlackRow

SpecBinarizer == InitBinarizer /\ [][NextBinarizer]_vars

\* ---- estimateBlackPoint on its own: a histogram of up to four buckets of
\* ---- 0, 1 or 2 pixels each is chosen, then its black point is estimated
PeakBuckets == {0, 1, 2, 3, 5, LUMINANCE_BUCKETS - 1}
PeakCounts == 0..2

\* the histogram with ca pixels in bucket a, cb in b, cc in c and cd in d
Histogram(a, ca, b, cb, c, cc, d, cd) ==
  [k \in 0..(LUMINANCE_BUCKETS - 1) |->
     (IF k = a THEN ca ELSE 0) + (IF k = b THEN cb ELSE 0)
       + (IF k = c THEN cc ELSE 0) + (IF k = d THEN cd ELSE 0)]

InitBlackPoint ==
  /\ \E a, b, c, d \in PeakBuckets, ca, cb, cc, cd \in PeakCounts, checks \in BOOLEAN :
       /\ a <= b /\ b <= c /\ c <= d
       /\ gh = [GhIdle EXCEPT !.buckets = Histogram(a, ca, b, cb, c, cc, d, cd),
                              !.checks = checks, !.op = "none", !.status = "made"]
  /\ bs = BsIdle
  /\ cs = CsIdle
  /\ gs = GsIdle
  /\ ba = BaIdle
  /\ bm = BmIdle
  /\ me = MeIdle
  /\ sb = SbIdle
  /\ pt = PtIdle
  /\ dr = DrIdle
  /\ vp = VpIdle

GhEstimateBlackPoint ==
  /\ gh.op = "none"
  /\ LET r == estimateBlackPoint(gh.buckets, gh.checks)
     IN  gh' = [gh EXCEPT !.op = "estimateBlackPoint", !.status = r.status,
                          !.blackPoint = r]
  /\ UNCHANGED <<bs, cs, gs, ba, bm, me, sb, pt, dr, vp>>

NextBlackPoint == GhEstimateBlackPoint

SpecBlackPoint == InitBlackPoint /\ [][NextBlackPoint]_vars

\* ---- HybridBinarizer: an image is chosen, then getBlackMatrix is called.
\* ---- The blocks of the first block row and block column take the
\* ---- luminances e and e + de in turn, the other blocks i and i + di
HybridSizes ==
  {<<MINIMUM_DIMENSION, MINIMUM_DIMENSION>>, <<MINIMUM_DIMENSION + 1, 45>>,
   <<47, MINIMUM_DIMENSION>>}

HybridImage(width, height, e, de, i, di) ==
  [width |-> width, height |-> height,
   pix |-> [x \in 0..(width - 1), y \in 0..(height - 1) |->
              IF x < BLOCK_SIZE \/ y < BLOCK_SIZE
              THEN e + (IF (x + y) % 2 = 0 THEN 0 ELSE de)
              ELSE i + (IF (x + y) % 2 = 0 THEN 0 ELSE di)]]

HybridImages ==
  {HybridImage(s[1], s[2], e, de, i, di) :
     s \in HybridSizes, e \in {40, 200}, de \in {0, 40},
     i \in {0, 100}, di \in {0, MIN_DYNAMIC_RANGE, MIN_DYNAMIC_RANGE + 1}}
    \cup {Image(MaxImageWidth, MaxImageHeight, 0, 255), Image(MaxImageWidth, 1, 7, 7)}

InitHybrid ==
  /\ \E img \in HybridImages, checks \in BOOLEAN :
       gh = [GhIdle EXCEPT !.img = img, !.checks = checks, !.op = "none",
                           !.status = "made", !.m = BitMatrixNew(img.width, img.height)]
  /\ bs = BsIdle
  /\ cs = CsIdle
  /\ gs = GsIdle
  /\ ba = BaIdle
  /\ bm = BmIdle
  /\ me = MeIdle
  /\ sb = SbIdle
  /\ pt = PtIdle
  /\ dr = DrIdle
  /\ vp = VpIdle

HbGetBlackMatrix ==
  /\ gh.op = "none"
  /\ \E r \in {HybridGetBlackMatrix(gh.img, gh.checks)} :
       gh' = [gh EXCEPT !.op = "hybridGetBlackMatrix", !.status = r.status, !.m = r.m,
                        !.black_points = r.black_points, !.window = r.window,
                        !.reads = r.reads]
  /\ UNCHANGED <<bs, cs, gs, ba, bm, me, sb, pt, dr, vp>>

NextHybrid == HbGetBlackMatrix

SpecHybrid == InitHybrid /\ [][NextHybrid]_vars

\* ---- DefaultGridSampler: a grid is sampled from an image through the
\* transform that takes the square of side GridSide to a quadrilateral
GridSide == 3
SampledWidth == 4
SampledHeight == 3

\* the images sampled: set pixels given as <<x, y>>
SampledImage(pixels) ==
  [BitMatrixNew(SampledWidth, SampledHeight) EXCEPT !.bits =
     [k \in 1..SampledHeight |-> {p[1] : p \in {q \in pixels : q[2] = k - 1}}]]

SampledImages ==
  {SampledImage({<<0, 0>>, <<2, 0>>, <<1, 1>>, <<3, 1>>, <<0, 2>>, <<2, 2>>}),
   SampledImage({<<1, 0>>, <<2, 1>>, <<3, 2>>})}

\* the quadrilaterals the square is taken to: the whole image, its left
\* part, shifted ones, one off the image and three that cross themselves
TargetQuads ==
  {<<0, 0, 4, 0, 4, 3, 0, 3>>, <<0, 0, 3, 0, 3, 3, 0, 3>>,
   <<2, 0, 5, 0, 5, 3, 2, 3>>, <<-1, 0, 2, 0, 2, 3, -1, 3>>,
   <<-3, 0, 0, 0, 0, 3, -3, 3>>,
   <<2, 1, 0, 2, 1, 2, 1, 0>>, <<1, 0, 3, 2, 0, 2, 3, 0>>, <<3, 1, 1, 2, 1, 0, 3, 2>>}

InitSampleGrid ==
  /\ \E image \in SampledImages, qp \in TargetQuads,
        dimensionX \in 0..GridSide, dimensionY \in 0..GridSide :
       gs = [GsIdle EXCEPT !.status = "made", !.image = image, !.qp = qp,
                           !.dimensionX = dimensionX, !.dimensionY = dimensionY]
  /\ bs = BsIdle
  /\ cs = CsIdle
  /\ ba = BaIdle
  /\ bm = BmIdle
  /\ me = MeIdle
  /\ gh = GhIdle
  /\ sb = SbIdle
  /\ pt = PtIdle
  /\ dr = DrIdle
  /\ vp = VpIdle

\* the transform of sample_grid_detailed for the grid's square and gs.qp
GridTransform(qp) ==
  quadrilateralToQuadrilateral(
    QuadF32(<<0, 0, GridSide, 0, GridSide, GridSide, 0, GridSide>>), QuadF32(qp))

GsSampleGrid ==
  /\ gs.status = "made"
  /\ \E transform \in {GridTransform(gs.qp)} :
       \E r \in {sample_grid(gs.image, gs.dimensionX, gs.dimensionY, transform)} :
         gs' = [gs EXCEPT !.status = r.status, !.bits = r.bits, !.reads = r.reads,
                          !.rows = r.rows]
  /\ UNCHANGED <<bs, cs, ba, bm, me, gh, sb, pt, dr, vp>>

NextSampleGrid == GsSampleGrid

SpecSampleGrid == InitSampleGrid /\ [][NextSampleGrid]_vars

\* ---- DetectionRXingResult: getDetectionRXingResultColumns on a grid of
\* columns, one step for the two indicator adjustments and one per pass of
\* its loop
\* the most passes a behaviour takes; the loop itself ends before
MaxPasses == 4

\* <<barcodeColumnCount, height>> of the grids; the columns of a grid have
\* the same height
GridShapes == {<<1, 1>>, <<1, 2>>, <<2, 2>>}

\* the slots of the columns 1 .. barcodeColumnCount
CodewordSlots ==
  {<<>>, <<[bucket |-> 0, rowNumber |-> BARCODE_ROW_UNKNOWN]>>,
   <<[bucket |-> 3, rowNumber |-> BARCODE_ROW_UNKNOWN]>>,
   <<[bucket |-> 0, rowNumber |-> 0]>>}

\* the slots of a row indicator column
IndicatorSlots ==
  {<<>>, <<[bucket |-> 0, rowNumber |-> 0]>>, <<[bucket |-> 3, rowNumber |-> 1]>>}

\* the columns of a height over a set of slots, and None
ColumnsOf(slots, height) == {<<>>} \cup {<<c>> : c \in [1..height -> slots]}

\* what adjustCompleteIndicatorColumnRowNumbers may leave of a row indicator
\* column: the method is not in this file, so any column of the height
AdjustedIndicatorColumns(column, height) ==
  IF column = <<>> THEN {<<>>} ELSE ColumnsOf(IndicatorSlots, height) \ {<<>>}

\* the grids of the shapes given, before getDetectionRXingResultColumns
DetectionGrids(shapes) ==
  /\ \E shape \in shapes :
       \E lri \in {<<>>, <<[r \in 1..shape[2] |-> <<>>]>>},
          rri \in {<<>>, <<[r \in 1..shape[2] |-> <<>>]>>},
          inner \in [1..shape[1] -> ColumnsOf(CodewordSlots, shape[2])] :
         dr = [DrIdle EXCEPT !.pc = "made", !.barcodeColumnCount = shape[1],
                             !.height = shape[2],
                             !.columns = <<lri>> \o inner \o <<rri>>]
  /\ bs = BsIdle
  /\ cs = CsIdle
  /\ gs = GsIdle
  /\ ba = BaIdle
  /\ bm = BmIdle
  /\ me = MeIdle
  /\ gh = GhIdle
  /\ sb = SbIdle
  /\ pt = PtIdle
  /\ vp = VpIdle

InitDetection == DetectionGrids(GridShapes)

\* the grids of one column, for the behaviours followed to their end
InitDetectionLive == DetectionGrids({shape \in GridShapes : shape[1] = 1})

\* getDetectionRXingResultColumns up to its loop: the two calls of
\* adjustIndicatorColumnRowNumbers and the initial count
DrAdjustIndicators ==
  /\ dr.pc = "made"
  /\ \E lri \in AdjustedIndicatorColumns(ColumnAt(dr.columns, 0), dr.height),
        rri \in AdjustedIndicatorColumns(ColumnAt(dr.columns, dr.barcodeColumnCount + 1),
                                         dr.height) :
       dr' = [dr EXCEPT !.pc = "loop",
                        !.columns = [dr.columns EXCEPT ![1] = lri,
                                       ![dr.barcodeColumnCount + 2] = rri],
                        !.unadjustedCodewordCount = MAX_CODEWORDS_IN_BARCODE]
  /\ UNCHANGED <<bs, cs, gs, ba, bm, me, gh, sb, pt, vp>>

\* one pass of the loop of getDetectionRXingResultColumns; when it breaks
\* the columns are returned
DrPass ==
  /\ dr.pc = "loop"
  /\ dr.passes < MaxPasses
  /\ \E r \in {adjustRowNumbers(dr.columns, dr.barcodeColumnCount, dr.height)} :
         dr' = [dr EXCEPT !.previousUnadjustedCount = dr.unadjustedCodewordCount,
                          !.unadjustedCodewordCount = r.count,
                          !.passes = dr.passes + 1,
                          !.before = dr.columns,
                          !.columns = r.columns,
                          !.status = r.status,
                          !.pc = IF r.status = "Ok"
                                      /\ KeepsAdjusting(r.count,
                                                        dr.unadjustedCodewordCount)
                                 THEN "loop" ELSE "done"]
  /\ UNCHANGED <<bs, cs, gs, ba, bm, me, gh, sb, pt, vp>>

NextDetection == DrAdjustIndicators \/ DrPass

SpecDetection == InitDetection /\ [][NextDetection]_vars

\* the call runs on: a step of it that can be taken is taken
SpecDetectionLive ==
  InitDetectionLive /\ [][NextDetection]_vars /\ WF_vars(NextDetection)

\* ---- VINResultParser: a result with a format and a text is parsed.  The
\* ---- texts are vehicle identification numbers, whole or with one char
\* ---- replaced, between a prefix and a suffix
\* 1M8GDM9AXKP042788, JH4KA7561PC008269 and 11111111111111111
VinNumbers ==
  {<<49, 77, 56, 71, 68, 77, 57, 65, 88, 75, 80, 48, 52, 50, 55, 56, 56>>,
   <<74, 72, 52, 75, 65, 55, 53, 54, 49, 80, 67, 48, 48, 56, 50, 54, 57>>,
   <<49, 49, 49, 49, 49, 49, 49, 49, 49, 49, 49, 49, 49, 49, 49, 49, 49>>}
\* the chars 0 I U X a, a space and e acute
VinChars == {48, 73, 85, 88, 97, 32, 233}
VinPositions == {1, 9, 10, 17}
\* nothing, a space, O, I and a space, A, e acute
VinPrefixes == {<<>>, <<32>>, <<79>>, <<73, 32>>, <<65>>, <<233>>}
\* nothing, a space and a line feed, Q, 8, a hyphen, e acute
VinSuffixes == {<<>>, <<32, 10>>, <<81>>, <<56>>, <<45>>, <<233>>}
VinBodies ==
  VinNumbers \cup {[n EXCEPT ![p] = c] : n \in VinNumbers, p \in VinPositions,
                                         c \in VinChars}
VinTexts ==
  {<<>>} \cup {prefix \o body \o suffix :
                prefix \in VinPrefixes, body \in VinBodies, suffix \in VinSuffixes}
VinFormats == {"CODE_39", "CODE_128"}

InitVin ==
  /\ bs = BsIdle
  /\ cs = CsIdle
  /\ gs = GsIdle
  /\ ba = BaIdle
  /\ bm = BmIdle
  /\ me = MeIdle
  /\ gh = GhIdle
  /\ sb = SbIdle
  /\ pt = PtIdle
  /\ dr = DrIdle
  /\ vp \in {[op |-> "made", format |-> format, text |-> text, out |-> VinNone] :
               format \in VinFormats, text \in VinTexts}

VpParse ==
  /\ vp.op = "made"
  /\ vp' = [vp EXCEPT !.op = "parsed", !.out = parse(vp.format, vp.text)]
  /\ UNCHANGED <<bs, cs, gs, ba, bm, me, gh, sb, pt, dr>>

NextVin == VpParse

SpecVin == InitVin /\ [][NextVin]_vars

\* ---- ECIStringBuilder: a fresh builder, then up to MaxCalls appends and
\* ---- builds.  text is the text given to appendCharacters so far, onlyText
\* ---- says that no bytes were appended
MaxCalls == 4
SbChars == {65, 233}
SbBytes == {65, 195, 169}
SbByteSlices == {<<>>, <<195, 169>>}
SbStrings == {<<65>>, <<233>>}
Ecis == {"ISO8859_1", "UTF8", "Binary", "Unknown"}

InitStringBuilder ==
  /\ bs = BsIdle
  /\ cs = CsIdle
  /\ gs = GsIdle
  /\ ba = BaIdle
  /\ bm = BmIdle
  /\ me = MeIdle
  /\ gh = GhIdle
  /\ sb = [SbIdle EXCEPT !.op = "new"]
  /\ pt = PtIdle
  /\ dr = DrIdle
  /\ vp = VpIdle

SbCalled(b, op, onlyText) ==
  [sb EXCEPT !.b = b, !.calls = @ + 1, !.op = op, !.onlyText = @ /\ onlyText]

SbAppendChar ==
  /\ sb.op # "idle"
  /\ sb.calls < MaxCalls
  /\ \E value \in SbChars : sb' = SbCalled(append_char(sb.b, value), "append_char", FALSE)
  /\ UNCHANGED <<bs, cs, gs, ba, bm, me, gh, pt, dr, vp>>

SbAppendByte ==
  /\ sb.op # "idle"
  /\ sb.calls < MaxCalls
  /\ \E value \in SbBytes : sb' = SbCalled(append_byte(sb.b, value), "append_byte", FALSE)
  /\ UNCHANGED <<bs, cs, gs, ba, bm, me, gh, pt, dr, vp>>

SbAppendBytes ==
  /\ sb.op # "idle"
  /\ sb.calls < MaxCalls
  /\ \E value \in SbByteSlices :
       sb' = SbCalled(append_bytes(sb.b, value), "append_bytes", FALSE)
  /\ UNCHANGED <<bs, cs, gs, ba, bm, me, gh, pt, dr, vp>>

SbAppendString ==
  /\ sb.op # "idle"
  /\ sb.calls < MaxCalls
  /\ \E value \in SbStrings :
       sb' = SbCalled(append_string(sb.b, value), "append_string", FALSE)
  /\ UNCHANGED <<bs, cs, gs, ba, bm, me, gh, pt, dr, vp>>

SbAppendCharacters ==
  /\ sb.op # "idle"
  /\ sb.calls < MaxCalls
  /\ \E value \in SbStrings :
       sb' = [SbCalled(appendCharacters(sb.b, value), "appendCharacters", TRUE)
                EXCEPT !.text = @ \o value]
  /\ UNCHANGED <<bs, cs, gs, ba, bm, me, gh, pt, dr, vp>>

SbAppendEci ==
  /\ sb.op # "idle"
  /\ sb.calls < MaxCalls
  /\ \E eci \in Ecis : sb' = SbCalled(append_eci(sb.b, eci), "append_eci", TRUE)
  /\ UNCHANGED <<bs, cs, gs, ba, bm, me, gh, pt, dr, vp>>

SbBuildResult ==
  /\ sb.op # "idle"
  /\ sb.calls < MaxCalls
  /\ sb' = SbCalled(build_result(sb.b), "build_result", TRUE)
  /\ UNCHANGED <<bs, cs, gs, ba, bm, me, gh, pt, dr, vp>>

NextStringBuilder ==
  \/ SbAppendChar
  \/ SbAppendByte
  \/ SbAppendBytes
  \/ SbAppendString
  \/ SbAppendCharacters
  \/ SbAppendEci
  \/ SbBuildResult

SpecStringBuilder == InitStringBuilder /\ [][NextStringBuilder]_vars

\* ---- PerspectiveTransform: two quadrilaterals with whole corners are
\* ---- chosen, the transform between them is built, and the corners of the
\* ---- first are mapped
Quads ==
  {<<0, 0, 1, 0, 1, 1, 0, 1>>,
   <<1, 1, 4, 2, 6, 5, 3, 4>>,
   <<2, 3, 10, 3, 10, 9, 2, 9>>,
   <<60, 2, 64, 40, 10, 64, 6, 26>>,
   <<2, 3, 10, 4, 16, 15, 4, 9>>,
   <<103, 110, 300, 120, 290, 270, 150, 280>>,
   <<2, 8, 1, 3, 7, 7, 5, 8>>,
   <<0, 3, 2, 8, 8, 6, 0, 2>>,
   <<0, 0, 8, 0, 6, 4, 2, 4>>,
   <<14, 9, 14, 12, 8, 15, 13, 3>>}

InitPerspective ==
  /\ bs = BsIdle
  /\ cs = CsIdle
  /\ gs = GsIdle
  /\ ba = BaIdle
  /\ bm = BmIdle
  /\ me = MeIdle
  /\ gh = GhIdle
  /\ sb = SbIdle
  /\ pt \in {[PtIdle EXCEPT !.q = q, !.qp = qp, !.phase = "new"] : q \in Quads, qp \in Quads}
  /\ dr = DrIdle
  /\ vp = VpIdle

PtQuadrilateralToQuadrilateral ==
  /\ pt.phase = "new"
  /\ pt' = [pt EXCEPT !.phase = "built",
                      !.t = <<quadrilateralToQuadrilateral(QuadF32(pt.q), QuadF32(pt.qp))>>]
  /\ UNCHANGED <<bs, cs, gs, ba, bm, me, gh, sb, dr, vp>>

PtTransformPoints ==
  /\ pt.phase = "built"
  /\ pt' = [pt EXCEPT !.phase = "mapped",
                      !.out = transform_points_single(pt.t[1], QuadF32(pt.q))]
  /\ UNCHANGED <<bs, cs, gs, ba, bm, me, gh, sb, dr, vp>>

NextPerspective == PtQuadrilateralToQuadrilateral \/ PtTransformPoints

SpecPerspective == InitPerspective /\ [][NextPerspective]_vars



(***************************************************************************)
(* The claims.                                                             *)
(***************************************************************************)

\* bit p (counted from the start of the buffer, most significant bit of a byte
\* first) of the buffer
BufferBit(s, p) == BitAt(s.bytes[(p \div 8) + 1], 7 - (p % 8))

\* the read position in bits
BitPos(byte_offset, bit_offset) == 8 * byte_offset + bit_offset

\* C3: for n in [1,32] with n <= available(), readBits(n) returns the next n bits
\* of the buffer, most significant bit first, and advances the position by n; for
\* every other n it returns InvalidArgument.
C3_ReadBitsMsbFirst ==
  bs.last.status # "none" =>
    LET n == bs.last.n
        pre == BitPos(bs.last.pre_byte, bs.last.pre_bit)
        availBefore == 8 * Len(bs.bytes) - pre
    IN  IF n < 1 \/ n > 32 \/ n > availBefore
        THEN bs.last.status = "IllegalArgument"
        ELSE /\ bs.last.status = "Ok"
             /\ BitPos(bs.byte_offset, bs.bit_offset) = pre + n
             /\ available(bs) = availBefore - n
             /\ \A k \in 0..(n - 1) :
                  BufferBit(bs, pre + k)
                    = (IF n - 1 - k > 30 THEN 0 ELSE BitAt(bs.last.result, n - 1 - k))

\* the ECI values the published table assigns
AssignedECIValues == ((0..30) \ {14, 19}) \cup {170}

\* the second values of the three encodings that have two
AliasECIValues == {2, 3, 170}

\* C8 as stated: for every accepted v, getValue(getCharacterSetECIByValue(v)) = v;
\* every other value fails with NotFound.
C8_ValueRoundTrip ==
  cs.status # "none" =>
    IF cs.v \in AssignedECIValues
    THEN cs.status = "Ok" /\ cs.value = cs.v
    ELSE cs.status = "NotFound"

\* C8 amended: the round trip gives v back except for the alias values 2, 3 and
\* 170, which give the first value of their encoding (0, 1 and 27); every value
\* outside the table fails with NotFound.
C8_ValueRoundTripUpToAlias ==
  cs.status # "none" =>
    IF cs.v \in AssignedECIValues
    THEN /\ cs.status = "Ok"
         /\ cs.v \notin AliasECIValues => cs.value = cs.v
         /\ cs.v = 2 => cs.value = 0
         /\ cs.v = 3 => cs.value = 1
         /\ cs.v = 170 => cs.value = 27
    ELSE cs.status = "NotFound"

\* C8 witness: the alias value 170 has been looked up and mapped back to 27
C8_WitnessAliasLookup == cs.status = "Ok" /\ cs.v = 170 /\ cs.value = 27

\* a point that C9 and C10 put outside the nudging range
StatedOutside(x, y) ==
  x < -1 \/ x > ImageWidth \/ y < -1 \/ y > ImageHeight

\* a coordinate clamped as C9 and C10 state it: -1 to 0, dim to dim - 1
StatedClamp(h, dim) ==
  IF AsI32(h) = -1 THEN 0
  ELSE IF AsI32(h) = dim THEN 2 * (dim - 1)
  ELSE h

StatedNeedsNudge(points, offset) ==
  \/ AsI32(points[offset + 1]) \in {-1, ImageWidth}
  \/ AsI32(points[offset + 2]) \in {-1, ImageHeight}

StatedNudge(points, offset) ==
  [points EXCEPT ![offset + 1] = StatedClamp(points[offset + 1], ImageWidth),
                 ![offset + 2] = StatedClamp(points[offset + 2], ImageHeight)]

\* the two sweeps as C9 describes them: forward from the first point, then
\* backward from the last point (the offset going down by 2), each to the first
\* point that needed no nudge
RECURSIVE StatedForward(_, _, _)
StatedForward(points, offset, nudged) ==
  IF offset < Len(points) - 1 /\ nudged
  THEN IF StatedOutside(AsI32(points[offset + 1]), AsI32(points[offset + 2]))
       THEN [status |-> "NotFound", points |-> points]
       ELSE StatedForward(StatedNudge(points, offset), offset + 2,
                          StatedNeedsNudge(points, offset))
  ELSE [status |-> "Ok", points |-> points]

RECURSIVE StatedBackward(_, _, _)
StatedBackward(points, offset, nudged) ==
  IF offset >= 0 /\ nudged
  THEN IF StatedOutside(AsI32(points[offset + 1]), AsI32(points[offset + 2]))
       THEN [status |-> "NotFound", points |-> points]
       ELSE StatedBackward(StatedNudge(points, offset), offset - 2,
                           StatedNeedsNudge(points, offset))
  ELSE [status |-> "Ok", points |-> points]

StatedTwoSweeps(points) ==
  LET f == StatedForward(points, 0, TRUE)
  IN  IF f.status = "NotFound" THEN f
      ELSE StatedBackward(f.points, Len(points) - 2, TRUE)

\* C9: for every list of at least one point the check makes the two sweeps,
\* returns Ok or NotFound and never indexes the list out of range.
C9_TwoSweepsNoFault ==
  (gs.status # "building" /\ Len(gs.orig) >= 2) =>
    /\ gs.status \in {"Ok", "NotFound"}
    /\ gs.status = StatedTwoSweeps(gs.orig).status
    /\ gs.status = "Ok" => gs.points = StatedTwoSweeps(gs.orig).points

\* the integer coordinates of the first and of the last point of a list
FirstX(points) == AsI32(points[1])
FirstY(points) == AsI32(points[2])
LastX(points) == AsI32(points[Len(points) - 1])
LastY(points) == AsI32(points[Len(points)])

EndPointOutside(points) ==
  \/ StatedOutside(FirstX(points), FirstY(points))
  \/ StatedOutside(LastX(points), LastY(points))

InsideImage(x, y) ==
  0 <= x /\ x <= ImageWidth - 1 /\ 0 <= y /\ y <= ImageHeight - 1

\* C10: an end point with integer x < -1, x > width, y < -1 or y > height gives
\* NotFound; after Ok the first and the last point lie in the image, a
\* coordinate that was -1 being 0 and one that was width (height) being
\* width - 1 (height - 1).
C10_EndPointsChecked ==
  (gs.status # "building" /\ Len(gs.orig) >= 2) =>
    LET n == Len(gs.orig)
    IN  /\ EndPointOutside(gs.orig) => gs.status = "NotFound"
        /\ gs.status = "Ok" =>
             /\ InsideImage(FirstX(gs.points), FirstY(gs.points))
             /\ InsideImage(LastX(gs.points), LastY(gs.points))
             /\ gs.points[1] = StatedClamp(gs.orig[1], ImageWidth)
             /\ gs.points[2] = StatedClamp(gs.orig[2], ImageHeight)
             /\ gs.points[n - 1] = StatedClamp(gs.orig[n - 1], ImageWidth)
             /\ gs.points[n] = StatedClamp(gs.orig[n], ImageHeight)

\* C10 witness: an Ok whose first point was nudged from (-1, height) to
\* (0, height - 1) and whose last point needed no nudge
C10_WitnessNudgedOk ==
  /\ gs.status = "Ok"
  /\ Len(gs.orig) >= 4
  /\ AsI32(gs.orig[1]) = -1 /\ AsI32(gs.orig[2]) = ImageHeight
  /\ gs.points[1] = 0 /\ gs.points[2] = 2 * (ImageHeight - 1)

\* bit i of a BitArray as its word vector stores it
StoredBit(a, i) == (i % 32) \in a.bits[(i \div 32) + 1]

\* C6: for every BitArray, size 0 included, one reverse() moves bit i to
\* position size - 1 - i and keeps the size, and two reverse() calls leave the
\* array equal to the original in size and in every bit.
C6_ReverseTwiceIdentity ==
  ba.revs >= 1 =>
    /\ ba.status = "ok"
    /\ ba.a.size = ba.orig.size
    /\ ba.revs = 1 =>
         \A i \in 0..(ba.a.size - 1) :
           StoredBit(ba.a, i) = StoredBit(ba.orig, ba.a.size - 1 - i)
    /\ ba.revs = 2 =>
         \A i \in 0..(ba.a.size - 1) : StoredBit(ba.a, i) = StoredBit(ba.orig, i)

\* bit (x, y) of a BitMatrix as its word vector stores it
MatrixBit(m, x, y) == (x % 32) \in m.bits[y * m.row_size + (x \div 32) + 1]

\* the cells (x, y) with x < width and y < height whose bit is set
SetCells(m) ==
  {c \in (0..(m.width - 1)) \X (0..(m.height - 1)) : MatrixBit(m, c[1], c[2])}

\* C4: for every matrix reachable through the public operations, flip_self and
\* setRow included, four rotate(90) calls give a matrix equal (==) to the
\* original, with width, height and row_size restored.
C4_FourQuarterTurns ==
  bm.n90 = 4 =>
    /\ bm.last = "Ok"
    /\ bm.b.width = bm.m.width
    /\ bm.b.height = bm.m.height
    /\ bm.b.row_size = bm.m.row_size
    /\ bm.b = bm.m

\* C5: rotate(180) gives the same matrix as two rotate(90) calls: the
\* dimensions are unchanged and bit (x, y) moves to (width-1-x, height-1-y).
C5_HalfTurnIsTwoQuarterTurns ==
  /\ (bm.did180 /\ bm.n90 = 2) => bm.a = bm.b
  /\ bm.did180 =>
       /\ bm.last = "Ok"
       /\ bm.a.width = bm.m.width
       /\ bm.a.height = bm.m.height
       /\ \A c \in (0..(bm.m.width - 1)) \X (0..(bm.m.height - 1)) :
            MatrixBit(bm.a, bm.m.width - 1 - c[1], bm.m.height - 1 - c[2])
              = MatrixBit(bm.m, c[1], c[2])

\* C5 witness: a matrix of odd height whose width is no multiple of 32, with
\* its first bit set and its last bit clear, has been rotated by 180 degrees
\* and, as another clone, twice by 90 degrees
C5_WitnessOddHeight ==
  /\ bm.did180 /\ bm.n90 = 2
  /\ bm.m.width = 5 /\ bm.m.height = 1
  /\ MatrixBit(bm.m, 0, 0) /\ ~MatrixBit(bm.m, 4, 0)
  /\ MatrixBit(bm.a, 4, 0) /\ ~MatrixBit(bm.a, 0, 0)

\* the least and the greatest element of a non-empty set of numbers
Least(S) == CHOOSE v \in S : \A u \in S : v <= u
Greatest(S) == CHOOSE v \in S : \A u \in S : v >= u

\* C7: for every matrix reachable through the public operations,
\* getEnclosingRectangle is None iff no bit (x, y) with x < width and
\* y < height is set, and otherwise the tight bounding box
\* [left, top, w, h] of the set bits, which lies inside the matrix.
C7_TightEnclosingRectangle ==
  bm.phase = "queried" =>
    LET cells == SetCells(bm.m)
        xs == {c[1] : c \in cells}
        ys == {c[2] : c \in cells}
    IN  IF cells = {}
        THEN bm.rect = <<>>
        ELSE /\ bm.rect = <<Least(xs), Least(ys), Greatest(xs) - Least(xs) + 1,
                            Greatest(ys) - Least(ys) + 1>>
             /\ bm.rect[1] + bm.rect[3] <= bm.m.width
             /\ bm.rect[2] + bm.rect[4] <= bm.m.height

\* the encoders that C1 and C2 choose from for the chars of Alphabet, and the
\* ECI values of their markers
StatedEncoders == {"iso-8859-1", "shift_jis", "utf-8", "utf-16be"}
StatedECIValue(enc) ==
  CASE enc = "iso-8859-1" -> 1
    [] enc = "shift_jis" -> 20
    [] enc = "utf-16be" -> 25
    [] enc = "utf-8" -> 26

\* an assignment of an encoder to every char of str, each able to encode its char
Assignments(str, fnc1) ==
  {a \in [1..Len(str) -> StatedEncoders] :
     \A k \in 1..Len(str) : str[k] = fnc1 \/ CanEncodeChar(a[k], str[k])}

\* the encoder before char k: the one of char k - 1, ISO-8859-1 before the first
EncoderBefore(a, k) == IF k = 1 THEN "iso-8859-1" ELSE a[k - 1]

\* the tokens of the chars k.. of str under the assignment a: for every char an
\* ECI marker when its encoder differs from the one before, then the FNC1
\* token or every byte of the char's encoding, in order
RECURSIVE StatedTokens(_, _, _, _)
StatedTokens(str, a, fnc1, k) ==
  IF k > Len(str) THEN <<>>
  ELSE (IF a[k] # EncoderBefore(a, k) THEN <<256 + StatedECIValue(a[k])>> ELSE <<>>)
         \o (IF str[k] = fnc1 THEN <<1000>> ELSE EncodedBytes(a[k], str[k]))
         \o StatedTokens(str, a, fnc1, k + 1)

\* the cost of the chars k.. of str under the assignment a
RECURSIVE AssignmentCost(_, _, _, _)
AssignmentCost(str, a, fnc1, k) ==
  IF k > Len(str) THEN 0
  ELSE (IF a[k] # EncoderBefore(a, k) THEN 3 ELSE 0)
         + (IF str[k] = fnc1 THEN 1 ELSE Len(EncodedBytes(a[k], str[k])))
         + AssignmentCost(str, a, fnc1, k + 1)

\* the cost of a token sequence: 1 for a byte or FNC1 token, 3 for an ECI marker
RECURSIVE TokenCost(_)
TokenCost(tokens) ==
  IF tokens = <<>> THEN 0
  ELSE (IF Head(tokens) < 256 \/ Head(tokens) = 1000 THEN 1 ELSE 3)
         + TokenCost(Tail(tokens))

\* a string with a char outside ISO-8859-1: its encoder set has more than one
\* encoder
SeveralEncoders(str) == \E k \in 1..Len(str) : str[k] > 255

\* C1: for a non-empty string whose encoder set has more than one encoder and
\* no matching priority charset, the tokens of MinimalECIInput have the least
\* cost over all assignments of a capable encoder to each char.
C1_MinimalCost ==
  (me.op = "new" /\ me.s # <<>> /\ SeveralEncoders(me.s) /\ me.priority = "big5") =>
    /\ me.status = "ok"
    /\ \A a \in Assignments(me.s, me.fnc1) :
         TokenCost(me.bytes) <= AssignmentCost(me.s, a, me.fnc1, 1)
    /\ \E a \in Assignments(me.s, me.fnc1) :
         TokenCost(me.bytes) = AssignmentCost(me.s, a, me.fnc1, 1)

\* C2: for every string s the tokens of MinimalECIInput round-trip to s: they
\* are, for some assignment of capable encoders, the bytes of every char in
\* order, with an ECI marker exactly where the encoder changes.
C2_TokensRoundTrip ==
  me.op = "new" =>
    /\ me.status = "ok"
    /\ \E a \in Assignments(me.s, me.fnc1) :
         me.bytes = StatedTokens(me.s, a, me.fnc1, 1)

\* ---- C11
\* every pixel of the image has the same luminance
UniformImage(img) ==
  \A x \in 0..(img.width - 1), y \in 0..(img.height - 1) : img.pix[x, y] = img.pix[0, 0]

\* C11: on an image whose pixels all have the same luminance, whatever the
\* luminance, getBlackMatrix and getBlackRow return NotFound
C11_UniformImageNotFound ==
  (gh.op \in {"getBlackMatrix", "getBlackRow"} /\ UniformImage(gh.img))
    => gh.status = "NotFound"


\* ---- C12
\* the last two entries of a list
LastTwo(list) == SubSeq(list, Len(list) - 1, Len(list))

\* C12: for every input string ECIEncoderSet::new completes; its list of
\* encoders starts with ISO-8859-1, and when the string holds a char outside
\* ISO-8859-1 the list ends with UTF-8 and UTF-16BE
C12_EncoderSetOrdered ==
  me.op = "encoder_set" =>
    /\ me.status = "ok"
    /\ Len(me.set.encoders) >= 1
    /\ me.set.encoders[1] = "iso-8859-1"
    /\ (\E i \in 1..Len(me.s) : me.s[i] > 255) =>
         /\ Len(me.set.encoders) >= 3
         /\ LastTwo(me.set.encoders) = <<"utf-8", "utf-16be">>

\* ---- C13
\* the token at the index that was asked about
QueriedToken == me.bytes[me.q.index + 1]

\* the three kinds of token that are stated
ByteKind(t) == t \in 0..255
FNC1Kind(t) == t = 1000 /\ me.q.isFNC1.status = "Ok" /\ me.q.isFNC1.value
ECIKind(t) == me.q.isECI.status = "Ok" /\ me.q.isECI.value

\* C13: every position of the token sequence is of exactly one kind (byte,
\* FNC1 sentinel, ECI marker); at an FNC1 position isECI is false, charAt
\* returns the FNC1 character and getECIValue fails with InvalidArgument; at an
\* ECI position charAt fails with InvalidArgument and getECIValue is token - 256
C13_TokenKinds ==
  (me.op = "query" /\ me.q.index < Len(me.bytes)) =>
    LET t == QueriedToken
    IN  /\ Cardinality({k \in {"byte", "fnc1", "eci"} :
                          \/ (k = "byte" /\ ByteKind(t))
                          \/ (k = "fnc1" /\ FNC1Kind(t))
                          \/ (k = "eci" /\ ECIKind(t))}) = 1
        /\ t = 1000 =>
             /\ me.q.isECI = [status |-> "Ok", value |-> FALSE]
             /\ me.q.charAt = [status |-> "Ok", value |-> me.fnc1 % 256]
             /\ me.q.getECIValue.status = "IllegalArgument"
        /\ (t > 255 /\ t # 1000) =>
             /\ me.q.charAt.status = "IllegalArgument"
             /\ me.q.getECIValue = [status |-> "Ok", value |-> t - 256]

\* ---- C14
\* every char of the string is in ISO-8859-1
Latin1Only(str) == \A i \in 1..Len(str) : str[i] <= 255

\* C14: for an input that ISO-8859-1 encodes, chars 128..255 included,
\* MinimalECIInput::new emits one token for each char, in order: 1000 where the
\* char is fnc1 and the char's code otherwise, and no ECI marker
C14_SingleEncoderTokens ==
  (me.op = "new" /\ Latin1Only(me.s)) =>
    /\ me.status = "ok"
    /\ Len(me.bytes) = Len(me.s)
    /\ \A i \in 1..Len(me.s) :
         me.bytes[i] = IF me.s[i] = me.fnc1 THEN 1000 ELSE me.s[i]

\* ---- C15
\* C15 as stated: rotate(d) returns Ok only for d in {0, 90, 180, 270}, and for
\* every other d (45, 360, 450) it returns InvalidArgument and leaves width,
\* height, row_size and the bits as they were
C15_OnlyFourDegrees ==
  bm.phase = "rotated" =>
    IF bm.deg \in {0, 90, 180, 270}
    THEN bm.last = "Ok"
    ELSE bm.last = "IllegalArgument" /\ bm.a = bm.m

\* C15, amended: rotate(d) returns Ok exactly when d % 360 is 0, 90, 180 or
\* 270, a full turn leaving the matrix as it was and an odd number of quarter
\* turns swapping width and height; for every other d it returns
\* InvalidArgument and leaves width, height, row_size and the bits as they were
C15_OnlyQuarterTurns ==
  bm.phase = "rotated" =>
    /\ bm.last = (IF bm.deg % 90 = 0 THEN "Ok" ELSE "IllegalArgument")
    /\ (bm.deg % 90 # 0 \/ bm.deg % 360 = 0) => bm.a = bm.m
    /\ (bm.deg % 180 = 90) =>
         /\ bm.a.width = bm.m.height
         /\ bm.a.height = bm.m.width
         /\ Cardinality(SetCells(bm.a)) = Cardinality(SetCells(bm.m))

\* a matrix with a set bit is handed 450 degrees and comes back turned
C15_WitnessMoreThanFullTurn ==
  /\ bm.phase = "rotated"
  /\ bm.deg = 450
  /\ bm.last = "Ok"
  /\ bm.m.width = 5 /\ bm.m.height = 2
  /\ bm.a.width = 2 /\ bm.a.height = 5
  /\ SetCells(bm.m) # {}

\* ---- C16
\* the call of xor that was made: the array before it, the other array and the
\* outcome
XorCall == ba.x[1]

\* C16: for two arrays of equal size, however each was built, xor succeeds and
\* leaves in bit i the old bit i XOR the other's bit i for every i < size, with
\* the size as it was; for arrays of different sizes it returns InvalidArgument
\* and changes nothing
C16_XorBitwise ==
  ba.x # <<>> =>
    IF XorCall.pre.size = XorCall.other.size
    THEN /\ XorCall.status = "Ok"
         /\ ba.a.size = XorCall.pre.size
         /\ \A i \in 0..(ba.a.size - 1) :
              StoredBit(ba.a, i) = (StoredBit(XorCall.pre, i) # StoredBit(XorCall.other, i))
    ELSE /\ XorCall.status = "IllegalArgument"
         /\ ba.a = XorCall.pre

\* ---- C19
\* the indexes of the one bits of the backing words
BackingOnes(a) == UNION {{32 * (k - 1) + b : b \in a.bits[k]} : k \in 1..Len(a.bits)}

\* C19: after any sequence of appendBit, appendBits, appendBitArray and reverse
\* calls on an array made by new() or with_size(n), the size is at most 32
\* times the number of backing words and every backing bit at an index >= size
\* is zero (calls of set on bits below size change nothing to that)
C19_BitsBeyondSizeZero ==
  ba.x = <<>> =>
    /\ ba.a.size <= 32 * Len(ba.a.bits)
    /\ \A i \in BackingOnes(ba.a) : i < ba.a.size

\* 32 one bits were appended to an array of 41 bits with bit 0 set, which was
\* then reversed: the size is no multiple of 32, a word lies wholly beyond it
\* and the one bits are at the front and at the end
C19_WitnessAppendThenReverse ==
  /\ ba.x = <<>>
  /\ ba.appends = 1 /\ ba.revs = 1 /\ ba.status = "ok"
  /\ ba.a.size = 73
  /\ 32 * Len(ba.a.bits) >= ba.a.size + 32
  /\ (0..31) \subseteq BackingOnes(ba.a)
  /\ 72 \in BackingOnes(ba.a)

\* C17: in the segment-based ECIStringBuilder, after any sequence of
\* append_char, append_byte, append_bytes, append_string and append_eci
\* calls, the recorded segments are contiguous and in order: every segment
\* but the last is closed (its end is not the 0 marker), has start <= end
\* and ends where the next one starts; the last segment is open (end = 0)
\* and starts at or before the current byte length.
C17_SegmentsContiguous ==
  LET p == sb.b.eci_positions
      n == Len(p)
  IN  /\ \A i \in 1..(n - 1) :
           /\ p[i][3] # 0
           /\ p[i][2] <= p[i][3]
           /\ p[i + 1][2] = p[i][3]
      /\ n > 0 => (p[n][3] = 0 /\ p[n][2] <= Len(sb.b.bytes))

\* C18: text appended with appendCharacters appears verbatim in the built
\* string whatever ECI is in force before it or appended after it: when only
\* appendCharacters, append_eci and build_result were called, the string the
\* builder shows is the concatenation of the appended texts.
C18_TextVerbatim ==
  (sb.op # "idle" /\ sb.onlyText) => to_string(sb.b) = sb.text

\* whether the f32 r is within 1e-4 of the whole number c, 0 <= c < 2^23:
\* with r = m / 2^k, the distance is at most 2^k / 10^4 in units of 2^-k
WithinTolerance(r, c) ==
  /\ r.k = "num"
  /\ IF r.m = 0 THEN c = 0
     ELSE IF c = 0
     THEN -r.e >= 38 \/ (-r.e = 37 /\ r.m <= 13743895)
     ELSE /\ r.s = 1
          /\ r.e < 0
          /\ r.e >= -24
          /\ LET k == -r.e
                 whole == r.m \div 2 ^ k
                 part == r.m % 2 ^ k
                 tolerance == 2 ^ k \div 10000
             IN  \/ whole = c /\ part <= tolerance
                 \/ whole = c - 1 /\ 2 ^ k - part <= tolerance

\* the corners are those of a parallelogram: squareToQuadrilateral is affine
IsParallelogram(q) == q[1] - q[3] + q[5] - q[7] = 0 /\ q[2] - q[4] + q[6] - q[8] = 0

\* C20 as stated: for t = quadrilateralToQuadrilateral(Q, Q'), transform_points
\* maps each of the four corners of Q to the corresponding corner of Q'
\* within 1e-4 per component, in the affine and in the projective case.
C20_CornersWithinTolerance ==
  pt.phase = "mapped" => \A i \in 1..8 : WithinTolerance(pt.out[i], pt.qp[i])

\* whether the f32 r is the whole number c, 0 <= c < 2^23
ExactlyWhole(r, c) ==
  /\ r.k = "num"
  /\ IF c = 0 THEN r.m = 0
     ELSE /\ r.s = 1
          /\ r.e \in -23..0
          /\ r.m % 2 ^ (-r.e) = 0
          /\ r.m \div 2 ^ (-r.e) = c

\* C20 amended: when Q and Q' are both parallelograms with whole corners of
\* size 64 at most, transform_points maps every corner of Q to exactly the
\* corresponding corner of Q'.
C20_ParallelogramsExact ==
  (pt.phase = "mapped" /\ IsParallelogram(pt.q) /\ IsParallelogram(pt.qp))
    => \A i \in 1..8 : ExactlyWhole(pt.out[i], pt.qp[i])

C20_WitnessParallelograms ==
  /\ pt.phase = "mapped"
  /\ pt.q = <<1, 1, 4, 2, 6, 5, 3, 4>>
  /\ pt.qp = <<60, 2, 64, 40, 10, 64, 6, 26>>
  /\ pt.out[5].m = 5 * 2 ^ 21
  /\ pt.out[5].e = -20


\* the tallest peak of a histogram, the first of the tallest buckets
TallestPeak(b) ==
  CHOOSE p \in DOMAIN b :
    /\ \A i \in DOMAIN b : b[i] <= b[p]
    /\ \A i \in DOMAIN b : i < p => b[i] < b[p]

\* the second peak: the first bucket of the greatest count * distance^2
StatedSecondPeak(b, p1) ==
  LET score == [i \in DOMAIN b |-> b[i] * (i - p1) * (i - p1)]
  IN  TallestPeak(score)

\* C21: for every histogram estimateBlackPoint takes as second peak the
\* bucket that maximizes count * (i - p1)^2 over the buckets on either side
\* of the tallest peak p1, computing i - p1 without fault for the buckets
\* below p1: the call ends without fault, and it fails with NotFound exactly
\* when that second peak is within numBuckets / 16 of the tallest peak.
C21_SecondPeakEitherSide ==
  gh.op = "estimateBlackPoint" =>
    LET p1 == TallestPeak(gh.buckets)
        p2 == StatedSecondPeak(gh.buckets, p1)
        distance == IF p1 < p2 THEN p2 - p1 ELSE p1 - p2
    IN  /\ gh.blackPoint.status \in {"Ok", "NotFound"}
        /\ gh.blackPoint.status = "NotFound" <=> distance <= LUMINANCE_BUCKETS \div 16

\* C22: whenever estimateBlackPoint succeeds, the black point is v << 3 for
\* a valley bucket v strictly between the two peaks that maximizes
\* (v - p1)^2 * (p2 - v) * (maxCount - count[v]); the bucket p2 itself is
\* never returned.
C22_ValleyStrictlyBetween ==
  (gh.op = "estimateBlackPoint" /\ gh.blackPoint.status = "Ok") =>
    LET tallest == TallestPeak(gh.buckets)
        second == StatedSecondPeak(gh.buckets, tallest)
        p1 == IF tallest < second THEN tallest ELSE second
        p2 == IF tallest < second THEN second ELSE tallest
        maxCount == gh.buckets[tallest]
        valley == [v \in (p1 + 1)..(p2 - 1) |->
                     (v - p1) * (v - p1) * (p2 - v) * (maxCount - gh.buckets[v])]
    IN  \E v \in DOMAIN valley :
          /\ gh.blackPoint.value = v * 2 ^ LUMINANCE_SHIFT
          /\ \A w \in DOMAIN valley : valley[w] <= valley[v]


\* C25: for every row of width >= 3 for which a black point is found,
\* getBlackRow sets bit x, for 1 <= x <= width - 2, iff
\* (4 * lum[x] - lum[x-1] - lum[x+1]) / 2 < blackPoint, the filter value
\* computed without overflow or underflow for any luminances in 0..255, and
\* leaves bits 0 and width - 1 unset.
C25_SharpenedRow ==
  (gh.op = "getBlackRow" /\ gh.img.width >= 3 /\ gh.blackPoint.status = "Ok") =>
    LET width == gh.img.width
        lum == [x \in 0..(width - 1) |-> gh.img.pix[x, gh.y]]
    IN  /\ gh.status = "Ok"
        /\ BackingOnes(gh.row) =
             {x \in 1..(width - 2) :
                (4 * lum[x] - lum[x - 1] - lum[x + 1]) \div 2 < gh.blackPoint.value}

\* the image of gh is one that HybridBinarizer thresholds by blocks
ThresholdedByBlocks ==
  /\ gh.op = "hybridGetBlackMatrix"
  /\ gh.img.width >= 40
  /\ gh.img.height >= 40

\* the number of blocks along n pixels, and the first pixel of block k
BlocksAlong(n) == (n + 7) \div 8

FirstPixel(k, n) == IF 8 * k + 8 > n THEN n - 8 ELSE 8 * k

\* the luminances of the block (x, y) of the image of gh, one per pixel
BlockPixels(x, y) ==
  [p \in (0..7) \X (0..7) |->
     gh.img.pix[FirstPixel(x, gh.img.width) + p[1], FirstPixel(y, gh.img.height) + p[2]]]

RECURSIVE SumOf(_, _)
SumOf(f, S) ==
  IF S = {} THEN 0 ELSE LET p == CHOOSE p \in S : TRUE IN f[p] + SumOf(f, S \ {p})

\* the black point stored for the block (x, y)
StoredBlackPoint(x, y) == gh.black_points[y * BlocksAlong(gh.img.width) + x + 1]

NeighborAverage(x, y) ==
  (StoredBlackPoint(x, y - 1) + 2 * StoredBlackPoint(x - 1, y)
     + StoredBlackPoint(x - 1, y - 1)) \div 4

\* C23 as stated: a block with max - min <= 24 gets min / 2 in the first
\* block row or column and otherwise the greater of min / 2 and
\* (bp[y-1][x] + 2 * bp[y][x-1] + bp[y-1][x-1]) / 4; a block with
\* max - min > 24 gets sum >> 6 over its 64 pixels.
C23_FlatBlockTakesGreater ==
  ThresholdedByBlocks =>
    \A x \in 0..(BlocksAlong(gh.img.width) - 1), y \in 0..(BlocksAlong(gh.img.height) - 1) :
      LET pixels == BlockPixels(x, y)
          values == {pixels[p] : p \in DOMAIN pixels}
          min == CHOOSE v \in values : \A o \in values : v <= o
          max == CHOOSE v \in values : \A o \in values : v >= o
      IN  StoredBlackPoint(x, y) =
            IF max - min <= 24
            THEN IF x = 0 \/ y = 0 \/ min \div 2 >= NeighborAverage(x, y)
                 THEN min \div 2
                 ELSE NeighborAverage(x, y)
            ELSE SumOf(pixels, DOMAIN pixels) \div 64

\* C23 amended: a block with max - min <= 24 gets min / 2 in the first block
\* row or column, and otherwise the neighbour average
\* (bp[y-1][x] + 2 * bp[y][x-1] + bp[y-1][x-1]) / 4 when min is below that
\* average and min / 2 when it is not; a block with max - min > 24 gets
\* sum >> 6 over its 64 pixels.
C23_FlatBlockComparesMin ==
  ThresholdedByBlocks =>
    \A x \in 0..(BlocksAlong(gh.img.width) - 1), y \in 0..(BlocksAlong(gh.img.height) - 1) :
      LET pixels == BlockPixels(x, y)
          values == {pixels[p] : p \in DOMAIN pixels}
          min == CHOOSE v \in values : \A o \in values : v <= o
          max == CHOOSE v \in values : \A o \in values : v >= o
      IN  StoredBlackPoint(x, y) =
            IF max - min <= 24
            THEN IF x = 0 \/ y = 0 \/ min >= NeighborAverage(x, y)
                 THEN min \div 2
                 ELSE NeighborAverage(x, y)
            ELSE SumOf(pixels, DOMAIN pixels) \div 64

\* a flat block away from the edges whose min is not below the neighbour
\* average, which is above min / 2, next to one whose min is below it
C23_WitnessMinAboveAverage ==
  /\ ThresholdedByBlocks
  /\ gh.img.width = 47
  /\ gh.img.pix[8, 8] = 100
  /\ gh.img.pix[9, 8] = 100
  /\ NeighborAverage(1, 1) = 60
  /\ StoredBlackPoint(1, 1) = 50
  /\ StoredBlackPoint(0, 0) = 60

\* C24: for every image of 40 x 40 pixels or more, multiples of 8 or not,
\* every index HybridBinarizer uses is in range: the rows top-2..top+2 and
\* columns left-2..left+2 of every 5 x 5 window lie within the grid of black
\* points, every pixel offset read lies within the width * height buffer,
\* and every pixel is covered by a thresholded block.
C24_IndexesInRange ==
  ThresholdedByBlocks =>
    /\ gh.status = "Ok"
    /\ \A i \in gh.window :
         /\ i[1] \in 0..(BlocksAlong(gh.img.height) - 1)
         /\ i[2] \in 0..(BlocksAlong(gh.img.width) - 1)
    /\ gh.reads = 0..(gh.img.width * gh.img.height - 1)

C24_WitnessPartialBlocks ==
  /\ ThresholdedByBlocks
  /\ gh.status = "Ok"
  /\ gh.img.width = 41
  /\ gh.img.height = 45
  /\ <<5, 5>> \in gh.window
  /\ <<0, 0>> \in gh.window
  /\ (41 * 45 - 1) \in gh.reads

\* the decoding of the segments from the k-th, each over the bytes from its
\* start to the start of the next segment, the last to the end of the buffer
RECURSIVE DecodedRanges(_, _)
DecodedRanges(b, k) ==
  IF k > Len(b.eci_positions) THEN <<>>
  ELSE LET start == b.eci_positions[k][2]
           end == IF k = Len(b.eci_positions) THEN Len(b.bytes)
                  ELSE b.eci_positions[k + 1][2]
       IN  UnwrapOrDefault(encode_segment(Slice(b.bytes, start, end), b.eci_positions[k][1]))
             \o DecodedRanges(b, k + 1)

\* C26: for every sequence of append and append_eci calls, two append_eci
\* calls in a row on an empty buffer included, the built string is the
\* concatenation, in order, of the bytes before the first segment decoded as
\* ISO-8859-1 and of each segment's range decoded with its ECI, the ranges
\* partitioning the buffer so that every byte contributes exactly once.
C26_EveryByteOnce ==
  sb.op # "idle" =>
    LET first == IF sb.b.eci_positions = <<>> THEN Len(sb.b.bytes)
                 ELSE sb.b.eci_positions[1][2]
    IN  to_string(sb.b) =
          UnwrapOrDefault(encode_segment(Slice(sb.b.bytes, 0, first), "ISO8859_1"))
            \o DecodedRanges(sb.b, 1)

\* the f32 pair sample_grid makes for the output bit (x, y), transformed
TransformedPoint(x, y) ==
  LET p == transform_points_single(GridTransform(gs.qp),
             <<F32Add(F32FromInt(x), F32Half), F32Add(F32FromInt(y), F32Half)>>)
  IN  <<HalfUnits(p[1]), HalfUnits(p[2])>>

\* whether the floor of a point in half units is a pixel of the image
FloorInsideImage(p, image) ==
  /\ p[1] >= 0 /\ p[1] \div 2 < image.width
  /\ p[2] >= 0 /\ p[2] \div 2 < image.height

\* C27: sample_grid never reads outside the image: the call ends Ok or
\* NotFound and never faults; every pixel read is within [0, width) x
\* [0, height); every point of a row that passed checkAndNudgePoints, not
\* only the end points, is inside the image; and on success output bit
\* (x, y) is set iff the image bit at the floor of the transformed point of
\* (x + 0.5, y + 0.5) is set.
C27_SampleInsideImage ==
  gs.status \notin {"building", "made"} =>
    /\ gs.status \in {"Ok", "NotFound"}
    /\ \A p \in gs.reads : p[1] < gs.image.width /\ p[2] < gs.image.height
    /\ \A y \in 1..Len(gs.rows) : \A x \in 0..(gs.dimensionX - 1) :
         FloorInsideImage(<<gs.rows[y][2 * x + 1], gs.rows[y][2 * x + 2]>>, gs.image)
    /\ gs.status = "Ok" =>
         \A x \in 0..(gs.dimensionX - 1), y \in 0..(gs.dimensionY - 1) :
           LET p == TransformedPoint(x, y)
           IN  /\ FloorInsideImage(p, gs.image)
               /\ BitMatrixGet(gs.bits, x, y)
                     <=> BitMatrixGet(gs.image, p[1] \div 2, p[2] \div 2)

\* C28: getDetectionRXingResultColumns always terminates: a further pass is
\* taken only after a pass whose count is positive and strictly below the
\* count before, so the passes taken are bounded by the initial count
\* MAX_CODEWORDS_IN_BARCODE, and the loop stops at the first pass that makes
\* no progress.
C28_AlwaysTerminates ==
  /\ <>(dr.pc = "done")
  /\ [][(dr.pc = "loop" /\ dr'.pc = "loop")
          => (dr'.unadjustedCodewordCount > 0
                /\ dr'.unadjustedCodewordCount < dr.unadjustedCodewordCount)]_vars
  /\ [](dr.pc = "loop"
          => dr.passes <= MAX_CODEWORDS_IN_BARCODE - dr.unadjustedCodewordCount)
  /\ [](dr.passes < MaxPasses)

C28_WitnessNoProgress ==
  /\ dr.pc = "done"
  /\ dr.status = "Ok"
  /\ dr.passes = 2
  /\ dr.unadjustedCodewordCount > 0
  /\ dr.unadjustedCodewordCount = dr.previousUnadjustedCount

\* whether a row indicator column has, in a row, a codeword whose row number
\* is valid for the codeword
IndicatorGives(columns, indicator, codewordsRow, codeword) ==
  /\ ColumnAt(columns, indicator) # <<>>
  /\ SlotAt(columns, indicator, codewordsRow) # <<>>
  /\ isValidRowNumber(codeword, SlotAt(columns, indicator, codewordsRow)[1].rowNumber)

\* the slots of the columns 1 .. barcodeColumnCount holding a codeword
\* without a valid row number
Unadjusted(columns, barcodeColumnCount) ==
  {s \in (1..barcodeColumnCount) \X (0..(dr.height - 1)) :
     /\ ColumnAt(columns, s[1]) # <<>>
     /\ SlotAt(columns, s[1], s[2]) # <<>>
     /\ ~hasValidRowNumber(SlotAt(columns, s[1], s[2])[1])}

\* C29: a pass updates the stored slots.  With `entered` the columns as the
\* pass's adjustRowNumbersFromLRI finds them: a codeword without a valid row
\* number for which the left indicator's row number is valid has that number
\* in its slot after the pass; one for which only the right indicator's is
\* valid has that one; and when no indicator gives a number to any codeword,
\* the first codeword adjustRowNumbersWithCodewords is called for has the row
\* number of its first neighbour of the 14 with a valid row number and its
\* bucket.  This holds of the columns after every pass, the returned ones
\* included.
C29_SlotsUpdated ==
  (dr.passes >= 1 /\ dr.status = "Ok") =>
    LET entered == adjustRowNumbersFromBothRI(dr.before, dr.barcodeColumnCount)
        n == dr.barcodeColumnCount
        todo == Unadjusted(entered, n)
        given == {s \in todo :
                    \/ IndicatorGives(entered, 0, s[2], SlotAt(entered, s[1], s[2])[1])
                    \/ IndicatorGives(entered, n + 1, s[2], SlotAt(entered, s[1], s[2])[1])}
    IN  /\ \A s \in given :
             /\ SlotAt(dr.columns, s[1], s[2]) # <<>>
             /\ SlotAt(dr.columns, s[1], s[2])[1].rowNumber =
                  IF IndicatorGives(entered, 0, s[2], SlotAt(entered, s[1], s[2])[1])
                  THEN SlotAt(entered, 0, s[2])[1].rowNumber
                  ELSE SlotAt(entered, n + 1, s[2])[1].rowNumber
        /\ (given = {} /\ todo # {} /\ dr.unadjustedCodewordCount > 0) =>
             LET first == CHOOSE s \in todo :
                            \A t \in todo : s[1] < t[1] \/ (s[1] = t[1] /\ s[2] <= t[2])
             IN  SlotAt(dr.columns, first[1], first[2]) =
                   <<adjustRowNumbersWithCodewords(entered, first[1], first[2]).codeword>>


\* ---- C30
\* the weights of the positions 1..17
VinWeights == <<8, 7, 6, 5, 4, 3, 2, 10, 0, 9, 8, 7, 6, 5, 4, 3, 2>>
RECURSIVE WeightedSum(_, _)
WeightedSum(s, n) ==
  IF n = 0 THEN 0
  ELSE WeightedSum(s, n - 1) + VinWeights[n] * vin_char_value(s[n])[1]
CheckCharOf(s) ==
  LET remainder == WeightedSum(s, Len(VinWeights)) % 11
  IN  IF remainder = 10 THEN 88 ELSE 48 + remainder
IsVin(format, text) ==
  LET cleaned == ReplaceAllIOQ(trim(text))
  IN  /\ format = "CODE_39"
      /\ Len(cleaned) = Len(VinWeights)
      /\ \A i \in 1..Len(cleaned) : cleaned[i] \in AZ09.class
      /\ cleaned[9] = CheckCharOf(cleaned)
      /\ model_year(cleaned[10]) # <<>>

=============================================================================
